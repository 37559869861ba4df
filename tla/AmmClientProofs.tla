--------------------------- MODULE AmmClientProofs ---------------------------
(***************************************************************************)
(* What trading through the application promises, whatever the users, the  *)
(* balances, the fee, the tolerances and the amounts: a transaction that   *)
(* lands moves what was shown, or what was accepted.                       *)
(*                                                                         *)
(* The argument has two halves.  QuotesArePriced is inductive: what a      *)
(* client was quoted follows from the pool that was read and from a fee    *)
(* that never changes once a quote is possible, in whatever order others   *)
(* act meanwhile.  The lemmas on plans say what the program does with the  *)
(* limits of a quote on the pool it finds.  PoolInv of AmmProofs is also   *)
(* an invariant here, for limits that no user of Amm has to pass.          *)
(***************************************************************************)
EXTENDS AmmClient, AmmProofs

---------------------------------------------------------------------------
(* What a quote says                                                       *)

D == FEE_BPS_DENOMINATOR

QuoteField ==
    {"op", "pair", "tolerance", "expected", "lp", "limit", "limit_lp", "pool", "sent"}

IsQuote(q) ==
    /\ q = [x \in QuoteField |-> q[x]]
    /\ q.op \in {"swap_in", "swap_out", "create", "add", "remove"}
    /\ q.pair \in Pair
    /\ q.tolerance \in Nat /\ q.tolerance < D

PricedSwapIn(q, fee_bps) ==
    LET r == q.pool.reserve
    IN  /\ q.expected[1] \in Input /\ q.expected[2] \in Nat
        /\ effective_amount_in(q.expected[1], fee_bps) # 0
        /\ q.expected[2] = amount_out(r[q.pair[1]], r[q.pair[2]],
                                      effective_amount_in(q.expected[1], fee_bps))
        /\ q.expected[2] # 0
        /\ q.limit[1] = q.expected[1]
        /\ q.limit[2] = slippage_floor(q.expected[2], q.tolerance)

PricedSwapOut(q, fee_bps) ==
    LET r == q.pool.reserve
    IN  /\ q.expected[1] \in Nat /\ q.expected[2] \in Input
        /\ q.expected[2] # 0 /\ q.expected[2] < r[q.pair[2]]
        /\ q.expected[1] =
             required_in(effective_in_min(q.expected[2], r[q.pair[1]], r[q.pair[2]]), fee_bps)
        /\ q.limit[1] = slippage_ceiling(q.expected[1], q.tolerance)
        /\ q.limit[2] = q.expected[2]

PricedCreate(q) ==
    LET initial_lp == CHOOSE l \in 0..U128_MAX : IsIsqrt(l, q.limit[1] * q.limit[2])
    IN  /\ q.limit[1] \in Nat \ {0} /\ q.limit[2] \in Nat \ {0}
        /\ q.expected = q.limit
        /\ initial_lp > MINIMUM_LIQUIDITY /\ q.lp = user_lp(initial_lp)

PricedAdd(q) ==
    LET r      == q.pool.reserve
        amount == actual_amount(r, Stored(q.pair, q.limit))
    IN  /\ q.limit[1] \in Input \ {0} /\ q.limit[2] \in Input \ {0}
        /\ \A s \in Side : ideal(r, Stored(q.pair, q.limit), s) <= U128_MAX /\ amount[s] # 0
        /\ q.expected = Displayed(q.pair, amount)
        /\ q.lp \in Nat \ {0} /\ q.lp = delta_lp(q.pool.supply, r, amount)
        /\ q.limit_lp # 0 /\ q.limit_lp = slippage_floor(q.lp, q.tolerance)

PricedRemove(q) ==
    /\ q.lp \in Input \ {0}
    /\ q.expected = Displayed(q.pair, withdraw_amount(q.pool.supply, q.pool.reserve, q.lp))
    /\ \A i \in 1..2 : /\ q.expected[i] \in Nat
                       /\ q.limit[i] # 0
                       /\ q.limit[i] = slippage_floor(q.expected[i], q.tolerance)

\* What is shown and what is insisted on follow from the pool read and the fee.
Priced(q, fee_bps) ==
    /\ IsQuote(q)
    /\ q.op = "swap_in" => PricedSwapIn(q, fee_bps)
    /\ q.op = "swap_out" => PricedSwapOut(q, fee_bps)
    /\ q.op = "create" => PricedCreate(q)
    /\ q.op = "add" => PricedAdd(q)
    /\ q.op = "remove" => PricedRemove(q)

IntentIsAMap == intent = [u \in Client |-> intent[u]]

QuotesArePriced ==
    \A u \in Client : intent[u] # REJECTED =>
        config.initialized /\ Priced(intent[u], config.swap_fee_bps)

\* All there is of a token fits the type of one holding of it, so no transfer
\* overflows.
LedgersFit == \A s \in Side : SumFunctionOnSet(holding[s], Holder) <= U128_MAX

\* The LP supply is at most the root of the reserves' product, so no mint overflows
\* as long as the reserves do not.
SharesAreBacked ==
    initialized =>
        liquidity_pool_supply * liquidity_pool_supply <= reserve["a"] * reserve["b"]

ClientInv == PoolInv /\ LedgersFit /\ SharesAreBacked /\ IntentIsAMap /\ QuotesArePriced

---------------------------------------------------------------------------
(* Display order and tolerances                                            *)

LEMMA PairsAreSides ==
  ASSUME NEW pair \in Pair
  PROVE  /\ pair[1] \in Side /\ pair[2] \in Side
         /\ pair[2] = Other(pair[1]) /\ pair[1] = Other(pair[2]) /\ Side = {pair[1], pair[2]}
BY DEF Pair, Side, Other

LEMMA StoredIsBySide ==
  ASSUME NEW pair \in Pair, NEW x
  PROVE  /\ Stored(pair, x) = [s \in Side |-> Stored(pair, x)[s]]
         /\ Stored(pair, x)[pair[1]] = x[1] /\ Stored(pair, x)[pair[2]] = x[2]
BY DEF Pair, Side, Stored

LEMMA DisplayedIsInOrder ==
  ASSUME NEW pair \in Pair, NEW amount
  PROVE  /\ Displayed(pair, amount)[1] = amount[pair[1]]
         /\ Displayed(pair, amount)[2] = amount[pair[2]]
BY DEF Displayed

\* A floor takes the tolerance and less than a unit more.
LEMMA FloorIsWithin ==
  ASSUME NEW shown \in Nat, NEW tolerance \in Nat, tolerance < D, NEW n \in Int,
         n >= slippage_floor(shown, tolerance)
  PROVE  AtLeast(n, shown, tolerance)
<1> DEFINE x == shown * (D - tolerance)
           f == x \div D
<1>1. D \in Nat \ {0} /\ D - tolerance \in Nat
  BY NumberAssumption DEF D
<1>2. x \in Nat
  BY <1>1, ProductIsNat
<1>3. f \in Nat /\ x < f * D + D
  <2> HIDE DEF x
  <2> QED BY <1>1, <1>2, FloorIsRead
<1>4. n >= f
  BY DEF slippage_floor, mul_div_floor, D
<1>5. n * D > x - D
  <2> HIDE DEF x, f
  <2>1. f * D <= n * D /\ f * D \in Int /\ n * D \in Int
    BY <1>1, <1>3, <1>4
  <2> QED BY <1>1, <1>2, <1>3, <2>1
<1> QED BY <1>5 DEF AtLeast, D

\* A ceiling adds the tolerance and less than a unit more.
LEMMA CeilingIsWithin ==
  ASSUME NEW shown \in Nat, NEW tolerance \in Nat, NEW n \in Int,
         n <= slippage_ceiling(shown, tolerance)
  PROVE  AtMost(n, shown, tolerance)
<1> DEFINE x == shown * (D + tolerance)
           c == (x + D - 1) \div D
<1>1. D \in Nat \ {0} /\ D + tolerance \in Nat
  BY NumberAssumption DEF D
<1>2. x \in Nat
  BY <1>1, ProductIsNat
<1>3. c \in Nat /\ c * D < x + D
  <2> HIDE DEF x
  <2> QED BY <1>1, <1>2, CeilIsRead
<1>4. n <= c
  BY DEF slippage_ceiling, mul_div_ceil, D
<1>5. n * D < x + D
  <2> HIDE DEF x, c
  <2>1. n * D <= c * D /\ c * D \in Int /\ n * D \in Int
    BY <1>1, <1>3, <1>4
  <2> QED BY <1>1, <1>2, <1>3, <2>1
<1> QED BY <1>5 DEF AtMost, D

\* Zero tolerance or not, nothing is asked beyond what was shown.
LEMMA FloorIsBelow ==
  ASSUME NEW shown \in Nat, NEW tolerance \in Nat, tolerance < D
  PROVE  /\ slippage_floor(shown, tolerance) \in Nat
         /\ slippage_floor(shown, tolerance) <= shown
         /\ tolerance = 0 => slippage_floor(shown, tolerance) = shown
<1> DEFINE x == shown * (D - tolerance)
           f == x \div D
<1>1. D \in Nat \ {0} /\ D - tolerance \in Nat /\ D - tolerance <= D
  BY NumberAssumption DEF D
<1>2. x \in Nat /\ x <= shown * D
  BY <1>1, ProductIsNat, ProductsAreOrdered
<1>3. f \in Nat /\ f * D <= x /\ x < f * D + D
  <2> HIDE DEF x
  <2> QED BY <1>1, <1>2, FloorIsRead
<1>4. f <= shown
  <2> HIDE DEF x, f
  <2>1. shown * D \in Int /\ f * D \in Int
    BY <1>1, <1>3
  <2>2. f * D <= shown * D
    BY <1>2, <1>3, <2>1
  <2> QED BY <1>1, <1>3, <2>2, FactorCancels
<1>5. ASSUME tolerance = 0 PROVE f = shown
  <2>1. x = shown * D
    BY <1>1, <1>5
  <2> HIDE DEF x, f
  <2>2. shown * D < (f + 1) * D
    <3>1. (f + 1) * D = f * D + D
      BY <1>1, <1>3
    <3> QED BY <1>3, <2>1, <3>1
  <2>3. shown < f + 1
    BY <1>1, <1>3, <2>2, FactorCancels
  <2> QED BY <1>3, <1>4, <2>3
<1> HIDE DEF x, f
<1>6. slippage_floor(shown, tolerance) = f
  BY DEF slippage_floor, mul_div_floor, D, f, x
<1> QED BY <1>3, <1>4, <1>5, <1>6

\* Nor is less offered.
LEMMA CeilingIsAbove ==
  ASSUME NEW shown \in Nat, NEW tolerance \in Nat
  PROVE  /\ slippage_ceiling(shown, tolerance) \in Nat
         /\ shown <= slippage_ceiling(shown, tolerance)
<1> DEFINE x == shown * (D + tolerance)
           c == (x + D - 1) \div D
<1>1. D \in Nat \ {0} /\ D + tolerance \in Nat /\ D <= D + tolerance
  BY NumberAssumption DEF D
<1>2. x \in Nat /\ shown * D <= x
  BY <1>1, ProductIsNat, ProductsAreOrdered
<1>3. c \in Nat /\ x <= c * D
  <2> HIDE DEF x
  <2> QED BY <1>1, <1>2, CeilIsRead
<1>4. shown <= c
  <2> HIDE DEF x, c
  <2>1. shown * D \in Int /\ c * D \in Int
    BY <1>1, <1>3
  <2>2. shown * D <= c * D
    BY <1>2, <1>3, <2>1
  <2> QED BY <1>1, <1>3, <2>2, FactorCancels
<1> QED BY <1>3, <1>4 DEF slippage_ceiling, mul_div_ceil, D

LEMMA RootIsUnique ==
  ASSUME NEW n \in Int, NEW x \in Nat, NEW y \in Nat, IsIsqrt(x, n), IsIsqrt(y, n)
  PROVE  x = y
<1>1. ASSUME NEW v \in Nat, NEW w \in Nat, IsIsqrt(v, n), IsIsqrt(w, n), v < w PROVE FALSE
  <2>1. v + 1 \in Nat /\ v + 1 <= w
    BY <1>1
  <2>2. (v + 1) * (v + 1) <= w * w
    BY <1>1, <2>1, ProductsAreOrdered
  <2>3. /\ n < (v + 1) * (v + 1) /\ w * w <= n
        /\ (v + 1) * (v + 1) \in Int /\ w * w \in Int
    BY <1>1, <2>1 DEF IsIsqrt
  <2> QED BY <2>2, <2>3
<1>2. ~(x < y) /\ ~(y < x)
  BY <1>1
<1> QED BY <1>2

---------------------------------------------------------------------------
(* Every quote is priced                                                   *)

LEMMA LiquidPool ==
  ASSUME PoolInv, config.initialized
  PROVE  /\ config.swap_fee_bps \in Nat /\ config.swap_fee_bps < D
         /\ liquidity_pool_supply \in Nat
         /\ \A s \in Side : reserve[s] \in Nat
         /\ HasLiquidity => /\ liquidity_pool_supply \in Nat \ {0}
                            /\ \A s \in Side : reserve[s] \in Nat \ {0}
BY NumberAssumption
   DEF PoolInv, TypeOK, FeesAreValid, ValidFees, HasLiquidity, Amount, D

\* The fields of a quote, and the pool it keeps.
LEMMA QuoteFields ==
  ASSUME NEW op, NEW pair \in Pair, NEW tolerance \in Nat, tolerance < D,
         op \in {"swap_in", "swap_out", "create", "add", "remove"},
         NEW expected, NEW lp, NEW limit, NEW limit_lp
  PROVE  LET q == Quote(op, pair, tolerance, expected, lp, limit, limit_lp)
         IN  /\ IsQuote(q)
             /\ q.op = op /\ q.pair = pair /\ q.tolerance = tolerance
             /\ q.expected = expected /\ q.lp = lp
             /\ q.limit = limit /\ q.limit_lp = limit_lp
             /\ q.pool.supply = liquidity_pool_supply /\ q.pool.reserve = reserve
BY DEF Quote, QuoteField, IsQuote, PoolRead

LEMMA SwapInIsPriced ==
  ASSUME PoolInv, config.initialized, NEW pair \in Pair, NEW n \in Input,
         NEW tolerance \in Nat, swap_exact_in_quote(pair, n, tolerance) # REJECTED
  PROVE  Priced(swap_exact_in_quote(pair, n, tolerance), config.swap_fee_bps)
<1> DEFINE e   == effective_amount_in(n, config.swap_fee_bps)
           out == amount_out(reserve[pair[1]], reserve[pair[2]], e)
           lim == slippage_floor(out, tolerance)
           q   == Quote("swap_in", pair, tolerance, <<n, out>>, 0, <<n, lim>>, 0)
<1>1. /\ swap_exact_in_quote(pair, n, tolerance) = q /\ tolerance < D /\ HasLiquidity
      /\ e # 0 /\ out # 0
  BY DEF swap_exact_in_quote, D
<1>2. n \in Nat /\ pair[1] \in Side /\ pair[2] \in Side
  BY NumberAssumption, PairsAreSides DEF Amount
<1>3. e \in Nat
  BY <1>2, LiquidPool, EffectiveIsPartOfTheInput DEF D
<1>4. out \in Nat
  <2> HIDE DEF e
  <2>1. reserve[pair[1]] \in Nat \ {0} /\ reserve[pair[2]] \in Nat \ {0}
    BY <1>1, <1>2, LiquidPool
  <2> QED BY <1>3, <2>1, OutputIsCovered
<1> HIDE DEF out, lim, e
<1>5. /\ IsQuote(q) /\ q.op = "swap_in" /\ q.pair = pair /\ q.tolerance = tolerance
      /\ q.expected = <<n, out>> /\ q.limit = <<n, lim>> /\ q.pool.reserve = reserve
  BY <1>1, QuoteFields
<1> HIDE DEF q
<1>6. PricedSwapIn(q, config.swap_fee_bps)
  BY <1>1, <1>4, <1>5 DEF PricedSwapIn, out, lim, e
<1> QED BY <1>1, <1>5, <1>6 DEF Priced

LEMMA SwapOutIsPriced ==
  ASSUME PoolInv, config.initialized, NEW pair \in Pair, NEW out \in Input,
         NEW tolerance \in Nat, swap_exact_out_quote(pair, out, tolerance) # REJECTED
  PROVE  Priced(swap_exact_out_quote(pair, out, tolerance), config.swap_fee_bps)
<1> DEFINE e   == effective_in_min(out, reserve[pair[1]], reserve[pair[2]])
           n   == required_in(e, config.swap_fee_bps)
           lim == slippage_ceiling(n, tolerance)
           q   == Quote("swap_out", pair, tolerance, <<n, out>>, 0, <<lim, out>>, 0)
<1>1. /\ swap_exact_out_quote(pair, out, tolerance) = q /\ tolerance < D /\ HasLiquidity
      /\ out # 0 /\ out < reserve[pair[2]]
  BY DEF swap_exact_out_quote, D
<1>2. out \in Nat /\ pair[1] \in Side /\ pair[2] \in Side
  BY NumberAssumption, PairsAreSides DEF Amount
<1>3. e \in Nat
  <2>1. /\ reserve[pair[1]] \in Nat \ {0} /\ reserve[pair[2]] \in Nat \ {0}
        /\ out \in Nat \ {0}
    BY <1>1, <1>2, LiquidPool
  <2> QED BY <1>1, <2>1, InputIsCovered
<1>4. n \in Nat
  <2> HIDE DEF e
  <2> QED BY <1>3, LiquidPool, RequiredCoversTheEffective DEF D
<1> HIDE DEF n, lim, e
<1>5. /\ IsQuote(q) /\ q.op = "swap_out" /\ q.pair = pair /\ q.tolerance = tolerance
      /\ q.expected = <<n, out>> /\ q.limit = <<lim, out>> /\ q.pool.reserve = reserve
  BY <1>1, QuoteFields
<1> HIDE DEF q
<1>6. PricedSwapOut(q, config.swap_fee_bps)
  BY <1>1, <1>4, <1>5 DEF PricedSwapOut, n, lim, e
<1> QED BY <1>1, <1>5, <1>6 DEF Priced

LEMMA CreateIsPriced ==
  ASSUME NEW pair \in Pair, NEW amounts, amounts[1] \in Nat, amounts[2] \in Nat,
         NEW fee_bps, create_pool_quote(pair, amounts) # REJECTED
  PROVE  Priced(create_pool_quote(pair, amounts), fee_bps)
<1> DEFINE root == CHOOSE l \in 0..U128_MAX : IsIsqrt(l, amounts[1] * amounts[2])
           lp   == user_lp(root)
           q    == Quote("create", pair, 0, amounts, lp, amounts, 0)
<1>1. /\ create_pool_quote(pair, amounts) = q
      /\ amounts[1] # 0 /\ amounts[2] # 0 /\ root > MINIMUM_LIQUIDITY
  BY DEF create_pool_quote
<1>2. 0 \in Nat /\ 0 < D
  BY NumberAssumption DEF D
<1> HIDE DEF lp
<1>3. /\ IsQuote(q) /\ q.op = "create" /\ q.pair = pair
      /\ q.expected = amounts /\ q.limit = amounts /\ q.lp = lp
  BY <1>2, QuoteFields
<1> HIDE DEF q
<1>4. PricedCreate(q)
  BY <1>1, <1>3 DEF PricedCreate, lp
<1> QED BY <1>1, <1>3, <1>4 DEF Priced

LEMMA AddIsPriced ==
  ASSUME PoolInv, config.initialized, NEW pair \in Pair, NEW n \in Input, NEW m \in Input,
         NEW tolerance \in Nat, add_liquidity_quote(pair, <<n, m>>, tolerance) # REJECTED
  PROVE  Priced(add_liquidity_quote(pair, <<n, m>>, tolerance), config.swap_fee_bps)
<1> DEFINE max    == <<n, m>>
           amount == actual_amount(reserve, Stored(pair, max))
           minted == delta_lp(liquidity_pool_supply, reserve, amount)
           least  == slippage_floor(minted, tolerance)
           shown  == Displayed(pair, amount)
           q      == Quote("add", pair, tolerance, shown, minted, max, least)
<1>1. /\ add_liquidity_quote(pair, max, tolerance) = q /\ tolerance < D /\ HasLiquidity
      /\ n # 0 /\ m # 0 /\ amount["a"] # 0 /\ amount["b"] # 0 /\ minted # 0 /\ least # 0
      /\ \A s \in Side : ideal(reserve, Stored(pair, max), s) <= U128_MAX
  BY DEF add_liquidity_quote, D
<1>2. \A s \in Side : Stored(pair, max)[s] \in Nat
  <2>1. n \in Nat /\ m \in Nat /\ max[1] = n /\ max[2] = m
    BY NumberAssumption DEF Amount
  <2> HIDE DEF max
  <2> QED BY <2>1, PairsAreSides, StoredIsBySide
<1>3. /\ liquidity_pool_supply \in Nat /\ \A s \in Side : reserve[s] \in Nat \ {0}
      /\ reserve \in [Side -> Nat \ {0}]
  BY <1>1, LiquidPool DEF PoolInv, TypeOK
<1>4. amount \in [Side -> Nat]
  <2> HIDE DEF max
  <2>1. ASSUME NEW s \in Side
        PROVE  Min2(ideal(reserve, Stored(pair, max), s), Stored(pair, max)[s]) \in Nat
    BY <1>2, <1>3, OtherSide, ShareIsCovered DEF ideal, Min2
  <2> QED BY <2>1 DEF actual_amount
<1>5. minted \in Nat
  <2> HIDE DEF amount
  <2> QED BY <1>3, <1>4, MintIsCovered
<1> HIDE DEF minted, least, shown, amount
<1>6. /\ IsQuote(q) /\ q.op = "add" /\ q.pair = pair /\ q.tolerance = tolerance
      /\ q.expected = shown /\ q.lp = minted /\ q.limit = max /\ q.limit_lp = least
      /\ q.pool.reserve = reserve /\ q.pool.supply = liquidity_pool_supply
  BY <1>1, QuoteFields
<1> HIDE DEF q
<1>7. PricedAdd(q)
  <2>1. max[1] \in Input \ {0} /\ max[2] \in Input \ {0} /\ \A s \in Side : amount[s] # 0
    BY <1>1 DEF Side
  <2> HIDE DEF max
  <2> QED BY <1>1, <1>5, <1>6, <2>1 DEF PricedAdd, minted, least, shown, amount
<1> QED BY <1>1, <1>6, <1>7 DEF Priced

LEMMA RemoveIsPriced ==
  ASSUME PoolInv, config.initialized, NEW pair \in Pair, NEW n \in Input,
         NEW tolerance \in Nat, remove_liquidity_quote(pair, n, tolerance) # REJECTED
  PROVE  Priced(remove_liquidity_quote(pair, n, tolerance), config.swap_fee_bps)
<1> DEFINE paid  == withdraw_amount(liquidity_pool_supply, reserve, n)
           shown == Displayed(pair, paid)
           least == [i \in 1..2 |-> slippage_floor(shown[i], tolerance)]
           q     == Quote("remove", pair, tolerance, shown, n, least, n)
<1>1. /\ remove_liquidity_quote(pair, n, tolerance) = q /\ tolerance < D /\ HasLiquidity
      /\ n # 0 /\ \A i \in 1..2 : least[i] # 0
  BY DEF remove_liquidity_quote, Floored, D
<1>2. \A s \in Side : paid[s] \in Nat
  <2>1. n \in Nat /\ liquidity_pool_supply \in Nat \ {0} /\ \A s \in Side : reserve[s] \in Nat
    BY <1>1, LiquidPool, NumberAssumption DEF Amount
  <2> QED BY <2>1, ShareIsCovered DEF withdraw_amount
<1>3. \A i \in 1..2 : shown[i] \in Nat /\ least[i] = slippage_floor(shown[i], tolerance)
  <2> HIDE DEF paid
  <2>1. shown[1] \in Nat /\ shown[2] \in Nat
    BY <1>2, PairsAreSides, DisplayedIsInOrder
  <2> QED BY <2>1
<1> HIDE DEF shown, least
<1>4. /\ IsQuote(q) /\ q.op = "remove" /\ q.pair = pair /\ q.tolerance = tolerance
      /\ q.expected = shown /\ q.lp = n /\ q.limit = least
      /\ q.pool.reserve = reserve /\ q.pool.supply = liquidity_pool_supply
  BY <1>1, QuoteFields
<1> HIDE DEF q
<1>5. PricedRemove(q)
  BY <1>1, <1>3, <1>4 DEF PricedRemove, shown
<1> QED BY <1>1, <1>4, <1>5 DEF Priced

\* A price turns an amount into at least as much of the dearer side.
LEMMA DearerSideIsMore ==
  ASSUME NEW x \in Nat, NEW y \in Nat, NEW z \in Nat \ {0}, z <= y
  PROVE  mul_div_ceil(x, y, z) \in Nat /\ x <= mul_div_ceil(x, y, z)
<1> DEFINE p == x * y
           c == (p + z - 1) \div z
<1>1. p \in Nat /\ x * z <= p
  BY ProductIsNat, ProductsAreOrdered
<1>2. c \in Nat /\ p <= c * z
  <2> HIDE DEF p
  <2> QED BY <1>1, CeilIsRead
<1>3. x * z <= c * z
  <2> HIDE DEF p, c
  <2>1. x * z \in Int /\ c * z \in Int
    BY <1>2
  <2> QED BY <1>1, <1>2, <2>1
<1>4. x <= c
  <2> HIDE DEF p, c
  <2> QED BY <1>2, <1>3, FactorCancels
<1> QED BY <1>2, <1>4 DEF mul_div_ceil

\* The least amount that clears the minimum, when the other side is no smaller.
LEMMA LeastClears ==
  ASSUME NEW f, \A n \in Nat : f[n] \in Nat /\ n <= f[n]
  PROVE  LET k == MINIMUM_LIQUIDITY + 1
             Least == CHOOSE n \in 1..k :
                         n * f[n] >= k * k /\ \A m \in 1..(n - 1) : ~(m * f[m] >= k * k)
         IN  Least \in Nat
<1> DEFINE k == MINIMUM_LIQUIDITY + 1
           T == {n \in 1..k : n * f[n] >= k * k}
<1>1. k \in Nat \ {0}
  BY NumberAssumption
<1>2. k \in T
  <2> HIDE DEF k
  <2>1. f[k] \in Nat /\ k <= f[k]
    BY <1>1
  <2>2. k * k <= k * f[k]
    BY <1>1, <2>1, ProductsAreOrdered
  <2>3. k \in 1..k /\ k * f[k] \in Int /\ k * k \in Int
    BY <1>1, <2>1
  <2> QED BY <2>2, <2>3
<1>3. T \subseteq Nat
  BY <1>1
<1>4. PICK n \in T : \A m \in T : n <= m
  <2> HIDE DEF T
  <2> QED BY <1>2, <1>3, LeastNatural
<1>5. n \in 1..k /\ n * f[n] >= k * k /\ \A m \in 1..(n - 1) : ~(m * f[m] >= k * k)
  <2> HIDE DEF k
  <2>1. ASSUME NEW m \in 1..(n - 1) PROVE ~(m * f[m] >= k * k)
    <3>1. m \in 1..k /\ ~(n <= m)
      BY <1>1, <1>4
    <3> QED BY <1>4, <3>1
  <2> QED BY <1>4, <2>1
<1>6. 1..k \subseteq Nat
  BY <1>1
<1> HIDE DEF k, T
<1> QED BY <1>5, <1>6 DEF k

LEMMA OpeningPairIsNatural ==
  ASSUME NEW price \in Nat \ {0}
  PROVE  minimum_opening_pair(price)[1] \in Nat /\ minimum_opening_pair(price)[2] \in Nat
<1> DEFINE k == MINIMUM_LIQUIDITY + 1
           B == [x \in Nat |-> mul_div_ceil(x, price, Q64)]
           A == [y \in Nat |-> mul_div_ceil(y, Q64, price)]
           Least(f) == CHOOSE n \in 1..k :
                         n * f[n] >= k * k /\ \A m \in 1..(n - 1) : ~(m * f[m] >= k * k)
<1>1. Q64 \in Nat \ {0} /\ k \in Nat /\ 1..k \subseteq Nat
  BY NumberAssumption
<1>2. CASE price >= Q64
  <2>1. \A n \in Nat : B[n] \in Nat /\ n <= B[n]
    BY <1>1, <1>2, DearerSideIsMore
  <2>2. Least(B) \in Nat
    <3> HIDE DEF B
    <3> QED BY <2>1, LeastClears
  <2>3. minimum_opening_pair(price) = <<Least(B), B[Least(B)]>>
    <3>1. /\ \A n \in 1..k : mul_div_ceil(n, price, Q64) = B[n]
          /\ \A n \in 1..k : \A m \in 1..(n - 1) : mul_div_ceil(m, price, Q64) = B[m]
      BY <1>1
    <3> DEFINE C == CHOOSE n \in 1..k :
                       /\ n * mul_div_ceil(n, price, Q64) >= k * k
                       /\ \A m \in 1..(n - 1) : ~(m * mul_div_ceil(m, price, Q64) >= k * k)
    <3>2. Least(B) = C
      BY <3>1
    <3>3. minimum_opening_pair(price) = <<C, mul_div_ceil(C, price, Q64)>>
      BY <1>2, Zenon DEF minimum_opening_pair
    <3> HIDE DEF C, Least
    <3>4. mul_div_ceil(C, price, Q64) = B[C]
      BY <2>2, <3>2
    <3> HIDE DEF B
    <3> QED BY <3>2, <3>3, <3>4
  <2>4. B[Least(B)] \in Nat
    BY <2>1, <2>2
  <2> HIDE DEF Least, B
  <2> QED BY <2>2, <2>3, <2>4
<1>3. CASE ~(price >= Q64)
  <2>1. \A n \in Nat : A[n] \in Nat /\ n <= A[n]
    BY <1>1, <1>3, DearerSideIsMore
  <2>2. Least(A) \in Nat
    <3> HIDE DEF A
    <3> QED BY <2>1, LeastClears
  <2>3. minimum_opening_pair(price) = <<A[Least(A)], Least(A)>>
    <3>1. /\ \A n \in 1..k : mul_div_ceil(n, Q64, price) = A[n]
          /\ \A n \in 1..k : \A m \in 1..(n - 1) : mul_div_ceil(m, Q64, price) = A[m]
      BY <1>1
    <3> DEFINE C == CHOOSE n \in 1..k :
                       /\ n * mul_div_ceil(n, Q64, price) >= k * k
                       /\ \A m \in 1..(n - 1) : ~(m * mul_div_ceil(m, Q64, price) >= k * k)
    <3>2. Least(A) = C
      BY <3>1
    <3>3. minimum_opening_pair(price) = <<mul_div_ceil(C, Q64, price), C>>
      BY <1>3, Zenon DEF minimum_opening_pair
    <3> HIDE DEF C, Least
    <3>4. mul_div_ceil(C, Q64, price) = A[C]
      BY <2>2, <3>2
    <3> HIDE DEF A
    <3> QED BY <3>2, <3>3, <3>4
  <2>4. A[Least(A)] \in Nat
    BY <2>1, <2>2
  <2> HIDE DEF Least, A
  <2> QED BY <2>2, <2>3, <2>4
<1> QED BY <1>2, <1>3

---------------------------------------------------------------------------
(* What a transaction moves                                                *)

LEMMA GainIsRead ==
  ASSUME TypeOK, NEW u \in User, NEW t \in Token, NEW n \in Int,
         holding'[t][u] = holding[t][u] + n
  PROVE  Gained(u, t) = n
<1>1. holding[t][u] \in Int
  BY DEF TypeOK, Holder, Amount
<1> QED BY <1>1 DEF Gained

\* SwapExactInput: the input is paid whole, the product's output is received.
LEMMA SwapInMoves ==
  ASSUME PoolInv, NEW u \in User, NEW s \in Side, NEW n \in Input, NEW l,
         SwapExactInput(u, s, n, l)
  PROVE  LET out == amount_out(reserve[s], reserve[Other(s)],
                               effective_amount_in(n, config.swap_fee_bps))
         IN  /\ out \in Nat /\ l <= out
             /\ Gained(u, s) = -n /\ Gained(u, Other(s)) = out
<1> DEFINE e == effective_amount_in(n, config.swap_fee_bps)
           out == amount_out(reserve[s], reserve[Other(s)], e)
<1>1. initialized /\ CanExecuteSwap(u, s, n, e, out) /\ ExecuteSwap(u, s, n, e, out) /\ l <= out
  BY DEF SwapExactInput, CanSwapExactInput, priced_in, swap_output, validate_swap_setup
<1>2. n \in Nat /\ reserve[s] \in Nat \ {0} /\ reserve[Other(s)] \in Nat \ {0}
  BY <1>1, PoolIsOpen, OtherSide, NumberAssumption DEF Amount
<1>3. e \in Nat /\ e <= n
  BY <1>1, <1>2, PoolIsOpen, EffectiveIsPartOfTheInput
<1>4. out \in Nat
  <2> HIDE DEF e
  <2> QED BY <1>2, <1>3, OutputIsCovered
<1> HIDE DEF e, out
<1>5. TypeOK /\ FeesAreValid /\ config.initialized
  BY <1>1, PoolIsOpen DEF PoolInv
<1>6. /\ holding'[s][u] = holding[s][u] - n
      /\ holding'[Other(s)][u] = holding[Other(s)][u] + out
  BY <1>1, <1>2, <1>3, <1>4, <1>5, SwapMoves
<1>7. s \in Token /\ Other(s) \in Token /\ -n \in Int /\ holding[s][u] \in Int
  BY <1>2, <1>5, OtherSide DEF Token, TypeOK, Holder, Amount
<1>8. holding'[s][u] = holding[s][u] + (-n)
  BY <1>2, <1>6, <1>7
<1> QED BY <1>1, <1>4, <1>5, <1>6, <1>7, <1>8, GainIsRead DEF e, out

\* SwapExactOutput: the output is received whole, the least input that buys it is paid.
LEMMA SwapOutMoves ==
  ASSUME PoolInv, NEW u \in User, NEW s \in Side, NEW out \in Input, NEW l,
         SwapExactOutput(u, s, out, l)
  PROVE  LET n == required_in(effective_in_min(out, reserve[s], reserve[Other(s)]),
                              config.swap_fee_bps)
         IN  /\ n \in Nat /\ n <= l
             /\ Gained(u, s) = -n /\ Gained(u, Other(s)) = out
<1> DEFINE e == effective_in_min(out, reserve[s], reserve[Other(s)])
           n == required_in(e, config.swap_fee_bps)
<1>1. /\ initialized /\ CanExecuteSwap(u, s, n, e, out) /\ ExecuteSwap(u, s, n, e, out) /\ n <= l
      /\ out # 0 /\ out < reserve[Other(s)]
  BY DEF SwapExactOutput, CanSwapExactOutput, priced_out, swap_input, validate_swap_setup
<1>2. out \in Nat \ {0} /\ reserve[s] \in Nat \ {0} /\ reserve[Other(s)] \in Nat
  BY <1>1, PoolIsOpen, OtherSide, NumberAssumption DEF Amount
<1>3. e \in Nat
  BY <1>1, <1>2, InputIsCovered
<1>4. n \in Nat /\ e <= n
  <2> HIDE DEF e
  <2> QED BY <1>1, <1>3, PoolIsOpen, RequiredCoversTheEffective
<1> HIDE DEF e, n
<1>5. TypeOK /\ FeesAreValid /\ config.initialized
  BY <1>1, PoolIsOpen DEF PoolInv
<1>6. /\ holding'[s][u] = holding[s][u] - n
      /\ holding'[Other(s)][u] = holding[Other(s)][u] + out
  BY <1>1, <1>2, <1>3, <1>4, <1>5, SwapMoves
<1>7. s \in Token /\ Other(s) \in Token /\ -n \in Int /\ holding[s][u] \in Int
  BY <1>4, <1>5, OtherSide DEF Token, TypeOK, Holder, Amount
<1>8. holding'[s][u] = holding[s][u] + (-n)
  BY <1>4, <1>6, <1>7
<1> QED BY <1>1, <1>2, <1>4, <1>5, <1>6, <1>7, <1>8, GainIsRead DEF e, n

\* NewDefinition: both deposits are paid, the root less the locked minimum is received.
LEMMA CreateMoves ==
  ASSUME PoolInv, NEW u \in User, NEW amount \in [Side -> Nat], NEW l \in Amount,
         NewDefinition(u, amount, l)
  PROVE  /\ \A s \in Side : Gained(u, s) = -amount[s]
         /\ Gained(u, "lp") = user_lp(l)
         /\ IsIsqrt(l, amount["a"] * amount["b"])
<1>1. /\ u \in Holder /\ VAULT \in Holder /\ LOCK \in Holder /\ u # VAULT /\ u # LOCK
      /\ "lp" \in Token /\ "lp" \notin Side /\ Side \subseteq Token
  BY HolderAssumption DEF Holder, Token, Side
<1>2. TypeOK /\ IsIsqrt(l, amount["a"] * amount["b"])
  BY DEF PoolInv, NewDefinition, CanNewDefinition
<1>3. ASSUME NEW s \in Side
      PROVE  Gained(u, s) = -amount[s]
  <2>1. /\ holding'[s] = Transferred(holding[s], u, VAULT, amount[s])
        /\ holding[s] \in [Holder -> Amount]
        /\ Transferable(holding[s], u, VAULT, amount[s])
    BY <1>1 DEF NewDefinition, CanNewDefinition, OpenPool, PoolInv, TypeOK
  <2>2. holding'[s][u] = holding[s][u] - amount[s]
    BY <1>1, <2>1, TransferMoves
  <2>3. holding[s][u] \in Int /\ amount[s] \in Int /\ -amount[s] \in Int
    BY <1>1, <2>1 DEF Amount
  <2>4. holding'[s][u] = holding[s][u] + (-amount[s])
    BY <2>2, <2>3
  <2> QED BY <1>1, <1>2, <2>3, <2>4, GainIsRead
<1>4. Gained(u, "lp") = user_lp(l)
  <2>1. user_lp(l) \in Int
    BY NumberAssumption DEF user_lp, Amount
  <2>2. /\ holding["lp"] \in [Holder -> Amount]
        /\ holding'["lp"] = [holding["lp"] EXCEPT ![LOCK] = MINIMUM_LIQUIDITY,
                                                   ![u] = @ + user_lp(l)]
    BY <1>1 DEF NewDefinition, CanNewDefinition, OpenPool, PoolInv, TypeOK
  <2>3. holding'["lp"][u] = holding["lp"][u] + user_lp(l)
    BY <1>1, <2>2
  <2> QED BY <1>1, <1>2, <2>1, <2>3, GainIsRead
<1> QED BY <1>2, <1>3, <1>4

\* AddLiquidity: what the pool's ratio takes of the maxima is paid, the smaller share
\* is received.
LEMMA AddMoves ==
  ASSUME PoolInv, NEW u \in User, NEW max \in [Side -> Input], NEW l,
         AddLiquidity(u, u, max, l)
  PROVE  LET amount == actual_amount(reserve, max)
             minted == delta_lp(liquidity_pool_supply, reserve, amount)
         IN  /\ \A s \in Side : /\ amount[s] \in Nat /\ amount[s] <= max[s]
                                /\ Gained(u, s) = -amount[s]
             /\ minted \in Nat /\ l <= minted /\ Gained(u, "lp") = minted
<1> DEFINE amount == actual_amount(reserve, max)
           minted == delta_lp(liquidity_pool_supply, reserve, amount)
<1>1. /\ initialized /\ l <= minted
      /\ CanDeposit(u, u, amount, minted) /\ Deposit(u, u, amount, minted)
  BY DEF AddLiquidity, CanAddLiquidity, minted_lp
<1>2. /\ reserve \in [Side -> Nat \ {0}] /\ max \in [Side -> Amount]
      /\ liquidity_pool_supply \in Nat /\ TypeOK
  BY <1>1, PoolIsOpen, NumberAssumption DEF PoolInv, TypeOK
<1>3. ASSUME NEW s \in Side
      PROVE  ideal(reserve, max, s) \in Nat /\ ideal(reserve, max, s) <= U128_MAX
  BY <1>2, OtherSide, ShareIsCovered DEF ideal, AddLiquidity, CanAddLiquidity, minted_lp, Amount
<1>4. amount \in [Side -> Amount] /\ \A s \in Side : amount[s] <= max[s]
  BY <1>2, <1>3 DEF actual_amount, Min2, Amount
<1>5. \A s \in Side : amount[s] \in Nat
  <2> HIDE DEF amount
  <2> QED BY <1>4 DEF Amount
<1>6. minted \in Nat
  <2> HIDE DEF amount
  <2>1. amount \in [Side -> Nat]
    BY <1>4, <1>5
  <2> QED BY <1>2, <2>1, MintIsCovered
<1> HIDE DEF amount, minted
<1>7. u \in User \union {LOCK} /\ Side \subseteq Token /\ "lp" \in Token
  BY DEF Token
<1>8. /\ \A s \in Side : holding'[s][u] = holding[s][u] - amount[s]
      /\ holding'["lp"][u] = holding["lp"][u] + minted
  BY <1>1, <1>2, <1>4, <1>6, <1>7, DepositMoves
<1>9. ASSUME NEW s \in Side
      PROVE  Gained(u, s) = -amount[s]
  <2>1. holding[s][u] \in Int /\ amount[s] \in Int /\ -amount[s] \in Int
    BY <1>2, <1>5, <1>7 DEF TypeOK, Holder, Amount
  <2>2. holding'[s][u] = holding[s][u] + (-amount[s])
    BY <1>8, <2>1
  <2> QED BY <1>2, <1>7, <2>1, <2>2, GainIsRead
<1>10. Gained(u, "lp") = minted
  BY <1>2, <1>6, <1>7, <1>8, GainIsRead
<1> QED BY <1>1, <1>4, <1>5, <1>6, <1>9, <1>10 DEF amount, minted

\* RemoveLiquidity: the LP tokens are burned, their share of either side is received.
LEMMA RemoveMoves ==
  ASSUME PoolInv, NEW u \in User, NEW n \in Input, NEW min, RemoveLiquidity(u, n, min)
  PROVE  LET amount == withdraw_amount(liquidity_pool_supply, reserve, n)
         IN  /\ \A s \in Side : /\ amount[s] \in Nat /\ amount[s] >= min[s]
                                /\ Gained(u, s) = amount[s]
             /\ Gained(u, "lp") = -n
<1> DEFINE amount == withdraw_amount(liquidity_pool_supply, reserve, n)
<1>1. /\ initialized /\ CanPayOut(u, n, amount) /\ PayOut(u, n, amount) /\ n <= holding["lp"][u]
      /\ n <= liquidity_pool_supply - MINIMUM_LIQUIDITY
      /\ \A s \in Side : amount[s] >= min[s]
  BY DEF RemoveLiquidity, CanRemoveLiquidity, unlocked_liquidity
<1>2. reserve \in [Side -> Nat] /\ n \in Nat /\ liquidity_pool_supply \in Nat \ {0} /\ TypeOK
  BY <1>1, PoolIsOpen, NumberAssumption DEF PoolInv, TypeOK, Amount
<1>3. \A s \in Side : amount[s] \in Nat
  BY <1>2, ShareIsCovered DEF withdraw_amount
<1>4. amount \in [Side -> Nat]
  BY <1>3 DEF withdraw_amount
<1>5. n <= liquidity_pool_supply
  BY <1>1, <1>2, NumberAssumption
<1> HIDE DEF amount
<1>6. /\ \A s \in Side : holding'[s][u] = holding[s][u] + amount[s]
      /\ holding'["lp"][u] = holding["lp"][u] - n
  BY <1>1, <1>2, <1>4, <1>5, PayOutMoves
<1>7. Side \subseteq Token /\ "lp" \in Token
  BY DEF Token
<1>8. \A s \in Side : Gained(u, s) = amount[s]
  BY <1>2, <1>3, <1>6, <1>7, GainIsRead
<1>9. Gained(u, "lp") = -n
  <2>1. holding["lp"][u] \in Int /\ -n \in Int
    BY <1>2, <1>7 DEF TypeOK, Holder, Amount
  <2>2. holding'["lp"][u] = holding["lp"][u] + (-n)
    BY <1>2, <1>6, <2>1
  <2> QED BY <1>2, <1>7, <2>1, <2>2, GainIsRead
<1> QED BY <1>1, <1>3, <1>8, <1>9 DEF amount

---------------------------------------------------------------------------
(* What is shown, accepted and moved                                       *)

LEMMA SwapInKeepsItsWord ==
  ASSUME PoolInv, NEW u \in User, Priced(intent[u], config.swap_fee_bps),
         intent[u].op = "swap_in",
         LET p == swap_exact_in_plan(intent[u])
         IN  SwapExactInput(u, p.token, p.swap_amount_in, p.min_amount_out)
  PROVE  MovesAsAccepted(u) /\ (PoolRead = intent[u].pool => MovesAsShown(u))
<1> DEFINE q == intent[u]
           i == q.pair[1]
           n == q.expected[1]
           out == amount_out(reserve[i], reserve[Other(i)],
                             effective_amount_in(n, config.swap_fee_bps))
<1>1. /\ PricedSwapIn(q, config.swap_fee_bps) /\ q.pair \in Pair
      /\ q.tolerance \in Nat /\ q.tolerance < D
  BY DEF Priced, IsQuote
<1>2. /\ n \in Input /\ q.expected[2] \in Nat /\ q.limit[1] = n
      /\ q.limit[2] = slippage_floor(q.expected[2], q.tolerance)
  BY <1>1 DEF PricedSwapIn
<1>3. i \in Side /\ q.pair[2] = Other(i)
  BY <1>1, PairsAreSides
<1>4. SwapExactInput(u, i, n, q.limit[2])
  BY <1>2 DEF swap_exact_in_plan
<1>5. /\ out \in Nat /\ q.limit[2] <= out
      /\ Gained(u, i) = -n /\ Gained(u, Other(i)) = out
  BY <1>2, <1>3, <1>4, SwapInMoves
<1>6. n \in Nat /\ -Gained(u, i) = n
  <2> HIDE DEF out, n, i
  <2>1. n \in Nat
    BY <1>2, NumberAssumption DEF Amount
  <2> QED BY <1>5, <2>1
<1>7. AtLeast(out, q.expected[2], q.tolerance)
  <2> HIDE DEF out
  <2> QED BY <1>1, <1>2, <1>5, FloorIsWithin
<1>8. AtMost(n, n, q.tolerance)
  <2>1. /\ D \in Nat \ {0} /\ D + q.tolerance \in Nat
        /\ n * D \in Int /\ n * (D + q.tolerance) \in Int
        /\ n * D <= n * (D + q.tolerance)
    BY <1>1, <1>6, NumberAssumption, ProductsAreOrdered, ProductIsNat DEF D
  <2>2. n * D < n * (D + q.tolerance) + D
    <3> HIDE DEF n
    <3> QED BY <2>1
  <2> QED BY <2>2 DEF AtMost, D
<1>9. ASSUME PoolRead = q.pool PROVE out = q.expected[2]
  <2>1. q.pool.reserve = reserve
    BY <1>9 DEF PoolRead
  <2> QED BY <1>1, <1>3, <2>1 DEF PricedSwapIn
<1> HIDE DEF out, i, n
<1>10. MovesAsAccepted(u)
  BY <1>3, <1>5, <1>6, <1>7, <1>8 DEF MovesAsAccepted, i, n
<1>11. PoolRead = q.pool => MovesAsShown(u)
  BY <1>3, <1>5, <1>9 DEF MovesAsShown, i, n
<1> QED BY <1>10, <1>11

LEMMA SwapOutKeepsItsWord ==
  ASSUME PoolInv, NEW u \in User, Priced(intent[u], config.swap_fee_bps),
         intent[u].op = "swap_out",
         LET p == swap_exact_out_plan(intent[u])
         IN  SwapExactOutput(u, p.token, p.exact_amount_out, p.max_amount_in)
  PROVE  MovesAsAccepted(u) /\ (PoolRead = intent[u].pool => MovesAsShown(u))
<1> DEFINE q == intent[u]
           i == q.pair[1]
           out == q.expected[2]
           n == required_in(effective_in_min(out, reserve[i], reserve[Other(i)]),
                            config.swap_fee_bps)
<1>1. /\ PricedSwapOut(q, config.swap_fee_bps) /\ q.pair \in Pair
      /\ q.tolerance \in Nat /\ q.tolerance < D
  BY DEF Priced, IsQuote
<1>2. /\ out \in Input /\ q.expected[1] \in Nat /\ q.limit[2] = out
      /\ q.limit[1] = slippage_ceiling(q.expected[1], q.tolerance)
  BY <1>1 DEF PricedSwapOut
<1>3. i \in Side /\ q.pair[2] = Other(i)
  BY <1>1, PairsAreSides
<1>4. SwapExactOutput(u, i, out, q.limit[1])
  BY <1>2 DEF swap_exact_out_plan
<1>5. /\ n \in Nat /\ n <= q.limit[1]
      /\ Gained(u, i) = -n /\ Gained(u, Other(i)) = out
  BY <1>2, <1>3, <1>4, SwapOutMoves
<1>6. out \in Nat /\ -Gained(u, i) = n
  <2> HIDE DEF n
  <2> QED BY <1>2, <1>5, NumberAssumption DEF Amount
<1>7. AtMost(n, q.expected[1], q.tolerance)
  <2> HIDE DEF n
  <2> QED BY <1>1, <1>2, <1>5, CeilingIsWithin
<1>8. AtLeast(out, out, q.tolerance)
  <2>1. /\ D \in Nat \ {0} /\ D - q.tolerance \in Nat /\ D - q.tolerance <= D
        /\ out * D \in Int /\ out * (D - q.tolerance) \in Int
    BY <1>1, <1>6, NumberAssumption, ProductIsNat DEF D
  <2>2. out * (D - q.tolerance) <= out * D
    BY <1>6, <2>1, ProductsAreOrdered
  <2>3. out * D > out * (D - q.tolerance) - D
    <3> HIDE DEF out
    <3> QED BY <2>1, <2>2
  <2> QED BY <2>3 DEF AtLeast, D
<1>9. ASSUME PoolRead = q.pool PROVE n = q.expected[1]
  <2>1. q.pool.reserve = reserve
    BY <1>9 DEF PoolRead
  <2> QED BY <1>1, <1>3, <2>1 DEF PricedSwapOut
<1> HIDE DEF out, i, n
<1>10. MovesAsAccepted(u)
  BY <1>3, <1>5, <1>6, <1>7, <1>8 DEF MovesAsAccepted, i, out
<1>11. PoolRead = q.pool => MovesAsShown(u)
  BY <1>3, <1>5, <1>9 DEF MovesAsShown, i, out
<1> QED BY <1>10, <1>11

LEMMA CreateKeepsItsWord ==
  ASSUME PoolInv, NEW u \in User, Priced(intent[u], config.swap_fee_bps),
         intent[u].op = "create",
         \E l \in Amount : NewDefinition(u, create_pool_plan(intent[u]), l)
  PROVE  MovesAsAccepted(u) /\ (PoolRead = intent[u].pool => MovesAsShown(u))
<1> DEFINE q == intent[u]
           amount == Stored(q.pair, q.limit)
           product == q.limit[1] * q.limit[2]
           root == CHOOSE l \in 0..U128_MAX : IsIsqrt(l, product)
<1>1. PricedCreate(q) /\ q.pair \in Pair
  BY DEF Priced, IsQuote
<1>2. /\ q.limit[1] \in Nat /\ q.limit[2] \in Nat /\ q.expected = q.limit
      /\ q.lp = user_lp(root)
  BY <1>1 DEF PricedCreate
<1>3. /\ amount[q.pair[1]] = q.limit[1] /\ amount[q.pair[2]] = q.limit[2]
      /\ amount = [s \in Side |-> amount[s]] /\ q.pair[1] \in Side /\ q.pair[2] \in Side
      /\ Side = {q.pair[1], q.pair[2]}
  BY <1>1, PairsAreSides, StoredIsBySide
<1>4. PICK l \in Amount : NewDefinition(u, amount, l)
  BY DEF create_pool_plan
<1> HIDE DEF amount
<1>5. amount \in [Side -> Nat]
  BY <1>2, <1>3
<1>6. /\ \A s \in Side : Gained(u, s) = -amount[s]
      /\ Gained(u, "lp") = user_lp(l)
      /\ IsIsqrt(l, amount["a"] * amount["b"])
  BY <1>4, <1>5, CreateMoves
<1>7. product \in Nat /\ amount["a"] * amount["b"] = product
  BY <1>1, <1>2, <1>3, ProductIsNat DEF Pair
<1>8. l = root
  <2> HIDE DEF product
  <2>1. l \in 0..U128_MAX /\ IsIsqrt(l, product)
    BY <1>6, <1>7 DEF Amount
  <2>2. root \in 0..U128_MAX /\ IsIsqrt(root, product)
    BY <2>1
  <2>3. l \in Nat /\ root \in Nat
    BY <2>1, <2>2, NumberAssumption
  <2> HIDE DEF root
  <2> QED BY <1>7, <2>1, <2>2, <2>3, RootIsUnique
<1> HIDE DEF root, product
<1>9. MovesAsShown(u)
  <2>1. \A k \in 1..2 : Gained(u, q.pair[k]) = -q.expected[k]
    BY <1>2, <1>3, <1>6
  <2> QED BY <1>2, <1>6, <1>8, <2>1 DEF MovesAsShown
<1>10. MovesAsAccepted(u)
  BY DEF MovesAsAccepted
<1> QED BY <1>9, <1>10

LEMMA AddKeepsItsWord ==
  ASSUME PoolInv, NEW u \in User, Priced(intent[u], config.swap_fee_bps),
         intent[u].op = "add",
         LET p == add_liquidity_plan(intent[u])
         IN  AddLiquidity(u, u, p.max_amount, p.min_lp)
  PROVE  MovesAsAccepted(u) /\ (PoolRead = intent[u].pool => MovesAsShown(u))
<1> DEFINE q == intent[u]
           max == Stored(q.pair, q.limit)
           amount == actual_amount(reserve, max)
           minted == delta_lp(liquidity_pool_supply, reserve, amount)
<1>1. PricedAdd(q) /\ q.pair \in Pair /\ q.tolerance \in Nat /\ q.tolerance < D
  BY DEF Priced, IsQuote
<1>2. /\ q.limit[1] \in Input /\ q.limit[2] \in Input /\ q.lp \in Nat
      /\ q.limit_lp = slippage_floor(q.lp, q.tolerance)
  BY <1>1 DEF PricedAdd
<1>3. /\ max[q.pair[1]] = q.limit[1] /\ max[q.pair[2]] = q.limit[2]
      /\ max = [s \in Side |-> max[s]] /\ q.pair[1] \in Side /\ q.pair[2] \in Side
      /\ Side = {q.pair[1], q.pair[2]}
  BY <1>1, PairsAreSides, StoredIsBySide
<1>4. AddLiquidity(u, u, max, q.limit_lp)
  BY DEF add_liquidity_plan
<1>5. max \in [Side -> Input]
  <2> HIDE DEF max
  <2> QED BY <1>2, <1>3
<1>6. /\ \A s \in Side : /\ amount[s] \in Nat /\ amount[s] <= max[s]
                         /\ Gained(u, s) = -amount[s]
      /\ minted \in Nat /\ q.limit_lp <= minted /\ Gained(u, "lp") = minted
  <2> HIDE DEF max
  <2> QED BY <1>4, <1>5, AddMoves
<1>7. AtLeast(minted, q.lp, q.tolerance)
  <2> HIDE DEF minted
  <2> QED BY <1>1, <1>2, <1>6, FloorIsWithin
<1>8. \A k \in 1..2 : /\ Gained(u, q.pair[k]) = -amount[q.pair[k]]
                      /\ -Gained(u, q.pair[k]) <= q.limit[k]
  <2> HIDE DEF max, amount
  <2>1. ASSUME NEW s \in Side PROVE Gained(u, s) = -amount[s] /\ -Gained(u, s) = amount[s]
    BY <1>6
  <2> QED BY <1>3, <1>6, <2>1
<1>9. ASSUME PoolRead = q.pool
      PROVE  minted = q.lp /\ \A k \in 1..2 : q.expected[k] = amount[q.pair[k]]
  <2>1. q.pool.reserve = reserve /\ q.pool.supply = liquidity_pool_supply
    BY <1>9 DEF PoolRead
  <2>2. q.expected = Displayed(q.pair, amount) /\ q.lp = minted
    BY <1>1, <2>1 DEF PricedAdd
  <2> HIDE DEF amount, minted
  <2> QED BY <1>1, <2>2, DisplayedIsInOrder
<1> HIDE DEF max, amount, minted
<1>10. MovesAsAccepted(u)
  BY <1>6, <1>7, <1>8 DEF MovesAsAccepted
<1>11. PoolRead = q.pool => MovesAsShown(u)
  BY <1>6, <1>8, <1>9 DEF MovesAsShown
<1> QED BY <1>10, <1>11

LEMMA RemoveKeepsItsWord ==
  ASSUME PoolInv, NEW u \in User, Priced(intent[u], config.swap_fee_bps),
         intent[u].op = "remove",
         LET p == remove_liquidity_plan(intent[u])
         IN  RemoveLiquidity(u, p.lp_amount, p.min_amount)
  PROVE  MovesAsAccepted(u) /\ (PoolRead = intent[u].pool => MovesAsShown(u))
<1> DEFINE q == intent[u]
           min == Stored(q.pair, q.limit)
           amount == withdraw_amount(liquidity_pool_supply, reserve, q.lp)
<1>1. PricedRemove(q) /\ q.pair \in Pair /\ q.tolerance \in Nat /\ q.tolerance < D
  BY DEF Priced, IsQuote
<1>2. /\ q.lp \in Input
      /\ \A k \in 1..2 : /\ q.expected[k] \in Nat
                         /\ q.limit[k] = slippage_floor(q.expected[k], q.tolerance)
  BY <1>1 DEF PricedRemove
<1>3. /\ min[q.pair[1]] = q.limit[1] /\ min[q.pair[2]] = q.limit[2]
      /\ q.pair[1] \in Side /\ q.pair[2] \in Side
  BY <1>1, PairsAreSides, StoredIsBySide
<1>4. RemoveLiquidity(u, q.lp, min)
  BY DEF remove_liquidity_plan
<1>5. /\ \A s \in Side : /\ amount[s] \in Nat /\ amount[s] >= min[s]
                         /\ Gained(u, s) = amount[s]
      /\ Gained(u, "lp") = -q.lp
  <2> HIDE DEF min
  <2> QED BY <1>2, <1>4, RemoveMoves
<1> HIDE DEF min
<1>6. ASSUME NEW k \in 1..2
      PROVE  /\ Gained(u, q.pair[k]) = amount[q.pair[k]]
             /\ AtLeast(amount[q.pair[k]], q.expected[k], q.tolerance)
  <2> HIDE DEF amount
  <2>1. /\ q.pair[k] \in Side /\ min[q.pair[k]] = q.limit[k]
        /\ amount[q.pair[k]] \in Int /\ amount[q.pair[k]] >= q.limit[k]
        /\ Gained(u, q.pair[k]) = amount[q.pair[k]]
    BY <1>3, <1>5
  <2> QED BY <1>1, <1>2, <2>1, FloorIsWithin
<1>7. ASSUME PoolRead = q.pool
      PROVE  \A k \in 1..2 : q.expected[k] = amount[q.pair[k]]
  <2>1. q.pool.reserve = reserve /\ q.pool.supply = liquidity_pool_supply
    BY <1>7 DEF PoolRead
  <2>2. q.expected = Displayed(q.pair, amount)
    BY <1>1, <2>1 DEF PricedRemove
  <2> HIDE DEF amount
  <2> QED BY <1>1, <2>2, DisplayedIsInOrder
<1> HIDE DEF amount
<1>8. MovesAsAccepted(u)
  BY <1>5, <1>6 DEF MovesAsAccepted
<1>9. PoolRead = q.pool => MovesAsShown(u)
  BY <1>5, <1>6, <1>7 DEF MovesAsShown
<1> QED BY <1>8, <1>9

\* A transaction the program executes keeps the quote's word.
LEMMA LandingKeepsItsWord ==
  ASSUME ClientInv, NEW u \in Client, InFlight(u), Execute(u, intent[u])
  PROVE  MovesAsAccepted(u) /\ (PoolRead = intent[u].pool => MovesAsShown(u))
<1>1. PoolInv /\ u \in User /\ Priced(intent[u], config.swap_fee_bps)
  BY ClientAssumption DEF ClientInv, QuotesArePriced, InFlight
<1> QED BY <1>1, SwapInKeepsItsWord, SwapOutKeepsItsWord, CreateKeepsItsWord, AddKeepsItsWord,
           RemoveKeepsItsWord DEF Execute

---------------------------------------------------------------------------
(* The ledgers and the shares                                              *)

LedgerStep ==
    \A s \in Side : SumFunctionOnSet(holding'[s], Holder) = SumFunctionOnSet(holding[s], Holder)

BackingStep == SharesAreBacked => SharesAreBacked'

LEMMA SideLedgers ==
  ASSUME TypeOK, NEW s \in Side
  PROVE  s \in Token /\ s # "lp" /\ holding[s] \in [Holder -> Amount]
BY DEF TypeOK, Side, Token

LEMMA SwapMovesTheLedgers ==
  ASSUME PoolInv, initialized, NEW u \in User, NEW s \in Side, NEW n \in Nat,
         NEW e \in Nat, NEW out \in Nat, SwapIsPriced(u, s, n, e, out)
  PROVE  LedgerStep
<1> DEFINE o == Other(s)
           fee == cut(n, e)
           paid == Paid(u, s, n)
           Total(h) == SumFunctionOnSet(h, Holder)
<1>1. /\ u \in Holder /\ VAULT \in Holder /\ FEES \in Holder /\ u # VAULT /\ VAULT # FEES
      /\ o \in Side /\ s # o /\ Side = {s, o} /\ TypeOK
  BY HolderAssumption, OtherSide DEF Holder, PoolInv
<1>2. fee \in Nat
  <2>1. n - e \in Nat
    BY DEF SwapIsPriced
  <2>2. config.protocol_fee_bps \in Nat /\ config.protocol_fee_bps <= FEE_BPS_DENOMINATOR
    BY PoolIsOpen DEF PoolInv, TypeOK, FeesAreValid, ValidFees
  <2> QED BY <2>1, <2>2, CutIsPartOfTheFee DEF cut
<1>3. /\ Transferable(holding[s], u, VAULT, n)
      /\ Transferable(holding[o], VAULT, u, out)
      /\ Transferable(paid, VAULT, FEES, fee)
      /\ holding' = [holding EXCEPT ![s] = Transferred(paid, VAULT, FEES, fee),
                                    ![o] = Transferred(@, VAULT, u, out)]
  BY DEF SwapIsPriced, CanExecuteSwap, ExecuteSwap
<1>4. holding[s] \in [Holder -> Amount] /\ holding[o] \in [Holder -> Amount]
  BY <1>1, SideLedgers
<1>5. paid \in [Holder -> Amount] /\ Total(paid) = Total(holding[s])
  BY <1>1, <1>3, <1>4, TransferMoves, TransferKeepsTheTotal DEF Paid
<1>6. holding'[s] = Transferred(paid, VAULT, FEES, fee)
      /\ holding'[o] = Transferred(holding[o], VAULT, u, out)
  <2> HIDE DEF fee, paid, o
  <2>1. s \in Token /\ o \in Token
    BY <1>1, SideLedgers
  <2> QED BY <1>1, <1>3, <2>1 DEF TypeOK
<1>7. Total(holding'[s]) = Total(paid)
  <2> HIDE DEF fee, paid
  <2> QED BY <1>1, <1>2, <1>3, <1>5, <1>6, TransferKeepsTheTotal
<1>8. Total(holding'[o]) = Total(holding[o])
  <2> HIDE DEF o
  <2> QED BY <1>1, <1>3, <1>4, <1>6, TransferKeepsTheTotal
<1> HIDE DEF o, paid
<1> QED BY <1>1, <1>5, <1>7, <1>8 DEF LedgerStep

\* Both deposits move from the user into the vaults.
LEMMA DepositMovesTheLedgers ==
  ASSUME TypeOK, NEW u \in User, NEW amount \in [Side -> Nat],
         \A s \in Side : /\ Transferable(holding[s], u, VAULT, amount[s])
                         /\ holding'[s] = Transferred(holding[s], u, VAULT, amount[s])
  PROVE  LedgerStep
<1>1. u \in Holder /\ VAULT \in Holder /\ u # VAULT
  BY HolderAssumption DEF Holder
<1> QED BY <1>1, SideLedgers, TransferKeepsTheTotal DEF LedgerStep

\* Both payments move out of the vaults to the user.
LEMMA PayOutMovesTheLedgers ==
  ASSUME TypeOK, NEW u \in User, NEW n, NEW amount \in [Side -> Nat],
         CanPayOut(u, n, amount), PayOut(u, n, amount)
  PROVE  LedgerStep
<1>1. u \in Holder /\ VAULT \in Holder /\ u # VAULT
  BY HolderAssumption DEF Holder
<1>2. ASSUME NEW s \in Side
      PROVE  /\ Transferable(holding[s], VAULT, u, amount[s])
             /\ holding'[s] = Transferred(holding[s], VAULT, u, amount[s])
  BY SideLedgers DEF CanPayOut, PayOut
<1> QED BY <1>1, <1>2, SideLedgers, TransferKeepsTheTotal DEF LedgerStep

\* One side's tokens move between two holdings.
LEMMA TransferMovesTheLedger ==
  ASSUME TypeOK, NEW s \in Side, NEW from \in Holder, NEW to \in Holder, from # to,
         NEW n \in Nat, Transferable(holding[s], from, to, n),
         holding' = [holding EXCEPT ![s] = Transferred(@, from, to, n)]
  PROVE  LedgerStep
<1>1. /\ holding'[s] = Transferred(holding[s], from, to, n)
      /\ \A r \in Side \ {s} : holding'[r] = holding[r]
  BY SideLedgers DEF TypeOK
<1>2. SumFunctionOnSet(holding'[s], Holder) = SumFunctionOnSet(holding[s], Holder)
  BY <1>1, SideLedgers, TransferKeepsTheTotal
<1> QED BY <1>1, <1>2 DEF LedgerStep

LEMMA FactorIsCovered ==
  ASSUME NEW l \in Nat \ {0}, NEW m \in Nat, NEW k \in Nat, NEW j \in Nat,
         l <= k, k * m <= j * l
  PROVE  m <= j
<1>1. l * m <= k * m
  BY ProductsAreOrdered
<1>2. m * l = l * m /\ m * l \in Int /\ k * m \in Int /\ j * l \in Int
  OBVIOUS
<1>3. m * l <= j * l
  BY <1>1, <1>2
<1> QED BY <1>3, FactorCancels

\* A share that is never worth less keeps the supply below the root.
LEMMA BackingFollows ==
  ASSUME PoolInv, PoolInv', ShareStep, UNCHANGED initialized
  PROVE  BackingStep
<1> DEFINE l == liquidity_pool_supply
           k == reserve["a"] * reserve["b"]
           m == liquidity_pool_supply'
           j == reserve'["a"] * reserve'["b"]
<1> SUFFICES ASSUME SharesAreBacked, initialized PROVE m * m <= j
  BY DEF BackingStep, SharesAreBacked
<1>1. /\ l \in Nat \ {0} /\ m \in Nat
      /\ reserve["a"] \in Nat /\ reserve["b"] \in Nat
      /\ reserve'["a"] \in Nat /\ reserve'["b"] \in Nat
  BY PoolIsOpen DEF PoolInv, TypeOK, Side, Amount
<1>2. k \in Nat /\ j \in Nat /\ m * m \in Nat /\ l * l \in Nat \ {0}
  <2>1. k \in Nat /\ j \in Nat
    BY <1>1, ProductIsNat
  <2> HIDE DEF l, m
  <2> QED BY <1>1, <2>1, ProductIsNat
<1>3. l * l <= k /\ k * (m * m) <= j * (l * l)
  BY DEF SharesAreBacked, ShareStep
<1> HIDE DEF l, m, k, j
<1> QED BY <1>2, <1>3, FactorIsCovered DEF j, m

---------------------------------------------------------------------------
(* The invariant                                                           *)

\* The fee a quote was priced with outlives every step.
FeeStays ==
    config.initialized =>
        config'.initialized /\ config'.swap_fee_bps = config.swap_fee_bps

PoolStep == PoolInv' /\ FeeStays /\ LedgerStep /\ BackingStep

LEMMA StillPool == ASSUME PoolInv, UNCHANGED vars PROVE PoolStep
BY NextKeepsPoolInv
   DEF PoolStep, FeeStays, vars, LedgerStep, BackingStep, SharesAreBacked

LEMMA SwapInIsAPoolStep ==
  ASSUME PoolInv, NEW u \in User, NEW s \in Side, NEW n \in Input, NEW l,
         SwapExactInput(u, s, n, l)
  PROVE  PoolStep
<1>0. AddressesKept
  BY SwapKeepsAddresses DEF PoolInv, SwapExactInput
<1>1. PoolInv' /\ LedgerStep /\ ShareStep
  BY <1>0, SwapExactInputIsPriced, SwapKeepsPoolInv, SwapMovesTheLedgers, SwapIsFair
<1>2. UNCHANGED <<initialized, config>>
  BY DEF SwapExactInput, CanSwapExactInput, priced_in, swap_output, ExecuteSwap
<1>3. BackingStep
  BY <1>1, <1>2, BackingFollows
<1> QED BY <1>1, <1>2, <1>3 DEF PoolStep, FeeStays

LEMMA SwapOutIsAPoolStep ==
  ASSUME PoolInv, NEW u \in User, NEW s \in Side, NEW n \in Input, NEW l,
         SwapExactOutput(u, s, n, l)
  PROVE  PoolStep
<1>0. AddressesKept
  BY SwapKeepsAddresses DEF PoolInv, SwapExactOutput
<1>1. PoolInv' /\ LedgerStep /\ ShareStep
  BY <1>0, SwapExactOutputIsPriced, SwapKeepsPoolInv, SwapMovesTheLedgers, SwapIsFair
<1>2. UNCHANGED <<initialized, config>>
  BY DEF SwapExactOutput, CanSwapExactOutput, priced_out, swap_input, ExecuteSwap
<1>3. BackingStep
  BY <1>1, <1>2, BackingFollows
<1> QED BY <1>1, <1>2, <1>3 DEF PoolStep, FeeStays

LEMMA CreateIsAPoolStep ==
  ASSUME PoolInv, NEW u \in User, NEW amount \in [Side -> Nat], NEW l \in Amount,
         NewDefinition(u, amount, l)
  PROVE  PoolStep
<1>1. PoolInv'
  BY NewDefinitionKeepsAddresses, NewDefinitionKeepsPoolInv DEF PoolInv
<1>2. UNCHANGED config
  BY DEF NewDefinition, CanNewDefinition, OpenPool
<1>3. LedgerStep
  <2>1. ASSUME NEW s \in Side
        PROVE  /\ Transferable(holding[s], u, VAULT, amount[s])
               /\ holding'[s] = Transferred(holding[s], u, VAULT, amount[s])
    BY SideLedgers DEF NewDefinition, CanNewDefinition, OpenPool, PoolInv
  <2> QED BY <2>1, DepositMovesTheLedgers DEF PoolInv
<1>4. SharesAreBacked'
  BY DEF SharesAreBacked, NewDefinition, CanNewDefinition, OpenPool, IsIsqrt
<1> QED BY <1>1, <1>2, <1>3, <1>4 DEF PoolStep, FeeStays, BackingStep

LEMMA AddIsAPoolStep ==
  ASSUME PoolInv, NEW u \in User, NEW max \in [Side -> Input], NEW l,
         AddLiquidity(u, u, max, l)
  PROVE  PoolStep
<1>1. PICK amount \in [Side -> Amount], minted \in Nat :
         /\ CanDeposit(u, u, amount, minted) /\ Deposit(u, u, amount, minted)
         /\ \A s \in Side : reserve[s] * minted <= amount[s] * liquidity_pool_supply
  BY AddLiquidityDeposits
<1>2. initialized /\ UNCHANGED <<initialized, config>>
  BY DEF AddLiquidity, CanAddLiquidity, minted_lp, Deposit
<1>3. PoolInv' /\ ShareStep
  <2>1. AddressesKept
    BY AddKeepsAddresses DEF PoolInv
  <2> QED BY <1>1, <1>2, <2>1, DepositKeepsPoolInv, DepositIsFair
<1>4. LedgerStep
  <2>1. ASSUME NEW s \in Side
        PROVE  /\ Transferable(holding[s], u, VAULT, amount[s])
               /\ holding'[s] = Transferred(holding[s], u, VAULT, amount[s])
    BY <1>1, SideLedgers DEF CanDeposit, Deposit, PoolInv
  <2>2. amount \in [Side -> Nat]
    BY DEF Amount
  <2> QED BY <2>1, <2>2, DepositMovesTheLedgers DEF PoolInv
<1>5. BackingStep
  BY <1>2, <1>3, BackingFollows
<1> QED BY <1>2, <1>3, <1>4, <1>5 DEF PoolStep, FeeStays

LEMMA RemoveIsAPoolStep ==
  ASSUME PoolInv, NEW u \in User, NEW n \in Input, NEW min, RemoveLiquidity(u, n, min)
  PROVE  PoolStep
<1>0. AddressesKept
  BY RemoveKeepsAddresses DEF PoolInv
<1>1. PoolInv' /\ LedgerStep /\ ShareStep
  BY <1>0, RemoveLiquidityPays, PayOutKeepsPoolInv, PayOutMovesTheLedgers, PayOutIsFair DEF PoolInv
<1>2. UNCHANGED <<initialized, config>>
  BY DEF RemoveLiquidity, CanRemoveLiquidity, PayOut
<1>3. BackingStep
  BY <1>1, <1>2, BackingFollows
<1> QED BY <1>1, <1>2, <1>3 DEF PoolStep, FeeStays

LEMMA ExecuteIsAPoolStep ==
  ASSUME PoolInv, NEW u \in User, NEW q, Priced(q, config.swap_fee_bps), Execute(u, q)
  PROVE  PoolStep
<1>1. q.pair \in Pair /\ q.pair[1] \in Side
  BY PairsAreSides DEF Priced, IsQuote
<1>2. CASE /\ q.op = "swap_in"
           /\ LET p == swap_exact_in_plan(q)
              IN  SwapExactInput(u, p.token, p.swap_amount_in, p.min_amount_out)
  <2>1. q.limit[1] \in Input
    BY <1>2 DEF Priced, PricedSwapIn
  <2> QED BY <1>1, <1>2, <2>1, SwapInIsAPoolStep DEF swap_exact_in_plan
<1>3. CASE /\ q.op = "swap_out"
           /\ LET p == swap_exact_out_plan(q)
              IN  SwapExactOutput(u, p.token, p.exact_amount_out, p.max_amount_in)
  <2>1. q.limit[2] \in Input
    BY <1>3 DEF Priced, PricedSwapOut
  <2> QED BY <1>1, <1>3, <2>1, SwapOutIsAPoolStep DEF swap_exact_out_plan
<1>4. CASE /\ q.op = "create"
          /\ \E l \in Amount : NewDefinition(u, create_pool_plan(q), l)
  <2>1. q.limit[1] \in Nat /\ q.limit[2] \in Nat
    BY <1>4 DEF Priced, PricedCreate
  <2>2. Stored(q.pair, q.limit) \in [Side -> Nat]
    BY <1>1, <2>1, PairsAreSides, StoredIsBySide
  <2> QED BY <1>4, <2>2, CreateIsAPoolStep DEF create_pool_plan
<1>5. CASE /\ q.op = "add"
           /\ LET p == add_liquidity_plan(q)
              IN  AddLiquidity(u, u, p.max_amount, p.min_lp)
  <2>1. q.limit[1] \in Input /\ q.limit[2] \in Input
    BY <1>5 DEF Priced, PricedAdd
  <2>2. Stored(q.pair, q.limit) \in [Side -> Input]
    BY <1>1, <2>1, PairsAreSides, StoredIsBySide
  <2> QED BY <1>5, <2>2, AddIsAPoolStep DEF add_liquidity_plan
<1>6. CASE /\ q.op = "remove"
           /\ LET p == remove_liquidity_plan(q)
              IN  RemoveLiquidity(u, p.lp_amount, p.min_amount)
  <2>1. q.lp \in Input
    BY <1>6 DEF Priced, PricedRemove
  <2> QED BY <1>6, <2>1, RemoveIsAPoolStep DEF remove_liquidity_plan
<1> QED BY <1>2, <1>3, <1>4, <1>5, <1>6 DEF Execute

\* A transfer by its owner, and a withdrawal of the protocol's fees.
LEMMA TransferIsAPoolStep ==
  ASSUME PoolInv, AddressesKept, NEW t \in Token,
         NEW from \in Holder \ {VAULT, LOCK}, NEW to \in Holder, from # to, NEW n \in Input,
         Transferable(holding[t], from, to, n), t = "lp" => from \in User,
         holding' = [holding EXCEPT ![t] = Transferred(@, from, to, n)],
         UNCHANGED <<lp_total_supply, initialized, liquidity_pool_supply, reserve, config, tick>>
  PROVE  PoolStep
<1>1. n \in Nat
  BY NumberAssumption DEF Amount
<1>2. PoolInv'
  BY <1>1, TransferKeepsPoolInv
<1>3. LedgerStep
  <2>1. CASE t \in Side
    BY <1>1, <2>1, TransferMovesTheLedger DEF PoolInv
  <2>2. CASE t = "lp"
    BY <2>2, SideLedgers DEF LedgerStep, PoolInv, TypeOK
  <2> QED BY <2>1, <2>2 DEF Token
<1>4. BackingStep
  BY DEF BackingStep, SharesAreBacked
<1> QED BY <1>2, <1>3, <1>4 DEF PoolStep, FeeStays

LEMMA OutsiderIsAPoolStep ==
  ASSUME PoolInv, NEW u \in User, Outsider(u)
  PROVE  PoolStep
<1>1. Input \subseteq Nat /\ u \in User \union {LOCK}
  BY NumberAssumption DEF Amount
<1>2. CASE \E s \in Side, n \in Input : SwapExactInput(u, s, n, 0)
  BY <1>2, SwapInIsAPoolStep
<1>3. CASE \E max \in [Side -> Input] : AddLiquidity(u, u, max, 1)
  BY <1>3, AddIsAPoolStep
<1>4. CASE \E n \in Input : RemoveLiquidity(u, n, [s \in Side |-> 1])
  BY <1>4, RemoveIsAPoolStep
<1>5. ASSUME NEW t \in Token, NEW h \in Holder, NEW n \in Input, TokenTransfer(t, u, h, n)
      PROVE  PoolStep
  <2>1. u \in Holder \ {VAULT, LOCK}
    BY HolderAssumption DEF Holder
  <2>2. AddressesKept
    BY <1>5, TransferKeepsAddresses DEF PoolInv
  <2> QED BY <1>5, <2>1, <2>2, TransferIsAPoolStep DEF TokenTransfer
<1>6. ASSUME NEW n \in Input, BurnLp(u, n)
      PROVE  PoolStep
  <2>1. AddressesKept
    BY <1>6, AddressesAreLeft DEF BurnLp, PoolInv
  <2>3. PoolInv' /\ \A s \in Side : holding'[s] = holding[s]
    BY <1>6, <2>1, BurnKeepsPoolInv, SideLedgers DEF BurnLp, PoolInv, TypeOK
  <2>2. UNCHANGED <<initialized, liquidity_pool_supply, reserve, config>>
    BY <1>6 DEF BurnLp
  <2> QED BY <2>2, <2>3 DEF PoolStep, FeeStays, LedgerStep, BackingStep, SharesAreBacked
<1>7. ASSUME NEW amount \in [Side -> Input], NEW l \in Amount, NewDefinition(u, amount, l)
      PROVE  PoolStep
  <2>1. amount \in [Side -> Nat]
    BY <1>1
  <2> QED BY <1>7, <2>1, CreateIsAPoolStep
<1>8. Side \subseteq Token /\ Client \subseteq Holder /\ VAULT \in Holder
  BY ClientAssumption DEF Token, Holder
<1> QED BY <1>2, <1>3, <1>4, <1>5, <1>6, <1>7, <1>8 DEF Outsider

\* Opening a holding and claiming an address move nothing.
LEMMA AddressesAreAPoolStep ==
  ASSUME PoolInv,
         \/ \E u \in Client, t \in Token : OpenHolding(u, t)
         \/ \E x \in Derived : Squat(x)
  PROVE  PoolStep
<1>1. AddressesKept
  BY OpeningKeepsAddresses, SquattingKeepsAddresses, ClientAssumption DEF PoolInv
<1>2. UNCHANGED <<holding, lp_total_supply, initialized, liquidity_pool_supply, reserve, config,
                  tick>>
  BY DEF OpenHolding, Squat
<1>3. PoolInv'
  BY <1>1, <1>2, PoolAlone
<1> QED BY <1>2, <1>3 DEF PoolStep, FeeStays, LedgerStep, BackingStep, SharesAreBacked

\* The quotes shown stay priced, when one is replaced or dropped and when one is sent.
LEMMA QuotesStayPriced ==
  ASSUME ClientInv, PoolStep, NEW u \in Client, NEW q,
         intent' = [intent EXCEPT ![u] = q],
         q # REJECTED => config.initialized /\ Priced(q, config.swap_fee_bps)
  PROVE  ClientInv'
<1>1. /\ intent = [v \in Client |-> intent[v]] /\ QuotesArePriced
      /\ PoolInv' /\ LedgersFit' /\ SharesAreBacked'
  BY DEF ClientInv, IntentIsAMap, PoolStep, LedgerStep, BackingStep, LedgersFit
<1>2. IntentIsAMap'
  BY <1>1 DEF IntentIsAMap
<1>3. ASSUME NEW v \in Client, intent'[v] # REJECTED
      PROVE  config.initialized /\ Priced(intent'[v], config.swap_fee_bps)
  <2>1. CASE v = u
    BY <1>1, <1>3, <2>1
  <2>2. CASE v # u
    <3>1. intent'[v] = intent[v]
      BY <1>1, <2>2
    <3> QED BY <1>1, <1>3, <3>1 DEF QuotesArePriced
  <2> QED BY <2>1, <2>2
<1>4. QuotesArePriced'
  BY <1>3 DEF QuotesArePriced, PoolStep, FeeStays
<1> QED BY <1>1, <1>2, <1>4 DEF ClientInv

LEMMA QuotesStay ==
  ASSUME ClientInv, PoolStep, UNCHANGED intent
  PROVE  ClientInv'
<1>1. PoolInv' /\ LedgersFit' /\ SharesAreBacked' /\ IntentIsAMap'
  BY DEF ClientInv, IntentIsAMap, PoolStep, LedgerStep, BackingStep, LedgersFit
<1>2. QuotesArePriced'
  BY DEF ClientInv, QuotesArePriced, PoolStep, FeeStays
<1> QED BY <1>1, <1>2 DEF ClientInv

LEMMA ShownIsPriced ==
  ASSUME ClientInv, NEW u \in Client, NEW q, Show(u, q),
         config.initialized /\ q # REJECTED => Priced(q, config.swap_fee_bps)
  PROVE  ClientInv'
<1>1. /\ config.initialized /\ intent' = [intent EXCEPT ![u] = q] /\ UNCHANGED vars
      /\ PoolInv
  BY DEF Show, ClientInv
<1> QED BY <1>1, StillPool, QuotesStayPriced

LEMMA RequestKeepsClientInv ==
  ASSUME ClientInv, NEW u \in Client, NEW pair \in Pair, NEW tolerance \in Slippage,
         Request(u, pair, tolerance)
  PROVE  ClientInv'
<1>1. PoolInv /\ tolerance \in Nat /\ Input \subseteq Nat
  BY ClientAssumption, NumberAssumption DEF ClientInv, Amount
<1>2. ASSUME NEW n \in Input, SwapExactInQuote(u, pair, n, tolerance)
      PROVE  ClientInv'
  BY <1>1, <1>2, ShownIsPriced, SwapInIsPriced DEF SwapExactInQuote
<1>3. ASSUME NEW n \in Input, SwapExactOutQuote(u, pair, n, tolerance)
      PROVE  ClientInv'
  BY <1>1, <1>3, ShownIsPriced, SwapOutIsPriced DEF SwapExactOutQuote
<1>4. ASSUME NEW amounts, amounts[1] \in Nat, amounts[2] \in Nat,
             CreatePoolQuote(u, pair, amounts)
      PROVE  ClientInv'
  BY <1>4, ShownIsPriced, CreateIsPriced DEF CreatePoolQuote
<1>5. ASSUME NEW n \in Input, NEW m \in Input, CreatePoolQuote(u, pair, <<n, m>>)
      PROVE  ClientInv'
  <2>1. <<n, m>>[1] \in Nat /\ <<n, m>>[2] \in Nat
    BY <1>1
  <2> QED BY <1>4, <1>5, <2>1
<1>6. ASSUME NEW price \in OpeningPrice,
             CreatePoolQuote(u, pair, minimum_opening_pair(price))
      PROVE  ClientInv'
  <2>1. price \in Nat \ {0}
    BY ClientAssumption
  <2> QED BY <1>4, <1>6, <2>1, OpeningPairIsNatural
<1>7. ASSUME NEW n \in Input, NEW m \in Input, AddLiquidityQuote(u, pair, <<n, m>>, tolerance)
      PROVE  ClientInv'
  BY <1>1, <1>7, ShownIsPriced, AddIsPriced DEF AddLiquidityQuote
<1>8. ASSUME NEW n \in Input, RemoveLiquidityQuote(u, pair, n, tolerance)
      PROVE  ClientInv'
  BY <1>1, <1>8, ShownIsPriced, RemoveIsPriced DEF RemoveLiquidityQuote
<1> QED BY <1>2, <1>3, <1>5, <1>6, <1>7, <1>8 DEF Request

\* Sending changes nothing that was quoted.
LEMMA SubmitKeepsClientInv ==
  ASSUME ClientInv, NEW u \in Client, NEW op, Submit(u, op)
  PROVE  ClientInv'
<1> DEFINE q == intent[u]
           sent == [q EXCEPT !.sent = TRUE]
<1>1. /\ q # REJECTED /\ config.initialized /\ UNCHANGED vars /\ PoolInv
      /\ intent' = [intent EXCEPT ![u] = sent]
  BY DEF Submit, ClientInv
<1>2. Priced(q, config.swap_fee_bps)
  BY <1>1 DEF ClientInv, QuotesArePriced
<1>3. q = [x \in QuoteField |-> q[x]]
  BY <1>2 DEF Priced, IsQuote
<1> HIDE DEF q
<1>4. /\ sent.op = q.op /\ sent.pair = q.pair /\ sent.tolerance = q.tolerance
      /\ sent.expected = q.expected /\ sent.lp = q.lp /\ sent.limit = q.limit
      /\ sent.limit_lp = q.limit_lp /\ sent.pool = q.pool
      /\ sent = [x \in QuoteField |-> sent[x]]
  BY <1>3 DEF QuoteField
<1> HIDE DEF sent
<1>5. IsQuote(sent)
  BY <1>2, <1>4 DEF Priced, IsQuote
<1>6. Priced(sent, config.swap_fee_bps)
  BY <1>2, <1>4, <1>5 DEF Priced, PricedSwapIn, PricedSwapOut, PricedCreate, PricedAdd,
                          PricedRemove
<1> QED BY <1>1, <1>6, StillPool, QuotesStayPriced

LEMMA LandIsAPoolStep ==
  ASSUME ClientInv, NEW u \in Client, Land(u)
  PROVE  PoolStep
<1>1. PoolInv /\ u \in User /\ Priced(intent[u], config.swap_fee_bps) /\ Execute(u, intent[u])
  BY ClientAssumption DEF ClientInv, QuotesArePriced, Land, InFlight
<1> QED BY <1>1, ExecuteIsAPoolStep

\* What the admin does through the module.
LEMMA AdminIsAPoolStep ==
  ASSUME PoolInv,
         \/ \E x \in Authority : SubmitTransferOwnership(x)
         \/ \E s \in Side, u \in User \ Client, n \in Input : SubmitWithdrawProtocolFees(s, u, n)
         \/ \E x \in Authority, f \in SwapFee, p \in ProtocolFee : Initialize(x, f, p)
  PROVE  PoolStep
<1>1. ASSUME NEW x \in Authority, SubmitTransferOwnership(x)
      PROVE  PoolStep
  <2>1. UpdateConfig(config.authority, x)
    BY <1>1 DEF SubmitTransferOwnership
  <2>2. PoolInv'
    BY <2>1, AddressesAreLeft, NamespaceKeepsPoolInv DEF PoolInv, UpdateConfig
  <2>3. FeeStays
    BY <2>1 DEF UpdateConfig, FeeStays, PoolInv, TypeOK
  <2>4. LedgerStep /\ BackingStep
    BY <2>1 DEF UpdateConfig, LedgerStep, BackingStep, SharesAreBacked
  <2> QED BY <2>2, <2>3, <2>4 DEF PoolStep
<1>2. ASSUME NEW s \in Side, NEW u \in User \ Client, NEW n \in Input,
             SubmitWithdrawProtocolFees(s, u, n)
      PROVE  PoolStep
  <2>1. FEES \in Holder \ {VAULT, LOCK} /\ u \in Holder /\ FEES # u
    BY HolderAssumption DEF Holder
  <2>2. /\ Transferable(holding[s], FEES, u, n)
        /\ holding' = [holding EXCEPT ![s] = Transferred(@, FEES, u, n)]
        /\ UNCHANGED <<lp_total_supply, initialized, liquidity_pool_supply, reserve, config, tick>>
    BY <1>2 DEF SubmitWithdrawProtocolFees, WithdrawProtocolFees
  <2>3. s \in Token /\ s # "lp" /\ AddressesKept
    BY <1>2, AddressesAreLeft
       DEF SubmitWithdrawProtocolFees, WithdrawProtocolFees, PoolInv, Side, Token
  <2> QED BY <2>1, <2>2, <2>3, TransferIsAPoolStep
<1>3. ASSUME NEW x \in Authority, NEW f \in SwapFee, NEW p \in ProtocolFee, Initialize(x, f, p)
      PROVE  PoolStep
  <2>1. PoolInv'
    BY <1>3, AddressesAreLeft, NamespaceKeepsPoolInv DEF PoolInv, Initialize
  <2> QED BY <1>3, <2>1
             DEF PoolStep, FeeStays, Initialize, LedgerStep, BackingStep, SharesAreBacked
<1> QED BY <1>1, <1>2, <1>3

LEMMA InitClientInv == ClientInit => ClientInv
<1> SUFFICES ASSUME ClientInit PROVE ClientInv
  OBVIOUS
<1>1. PoolInv
  BY InitPoolInv DEF ClientInit
<1>2. IntentIsAMap /\ QuotesArePriced /\ SharesAreBacked
  BY DEF ClientInit, Init, IntentIsAMap, QuotesArePriced, SharesAreBacked
<1>3. ASSUME NEW s \in Side
      PROVE  SumFunctionOnSet(holding[s], Holder) <= U128_MAX
  <2> DEFINE h == holding[s]
             own == InitialBalance[s]
             Total(S) == SumFunctionOnSet(h, S)
  <2>1. /\ \A x \in User : h[x] = own[x]
        /\ h[VAULT] = 0 /\ h[FEES] = 0 /\ h[LOCK] = 0
    BY HolderAssumption DEF ClientInit, Init, Side, Token, Holder
  <2>2. /\ \A x \in Holder : h[x] \in Int
        /\ VAULT \in Holder /\ FEES \in Holder \ {VAULT} /\ LOCK \in (Holder \ {VAULT}) \ {FEES}
        /\ ((Holder \ {VAULT}) \ {FEES}) \ {LOCK} = User
    BY <1>1, SideLedgers, HolderAssumption DEF PoolInv, Holder, Amount
  <2> HIDE DEF h
  <2>3. /\ IsFiniteSet(Holder) /\ IsFiniteSet(Holder \ {VAULT})
        /\ IsFiniteSet((Holder \ {VAULT}) \ {FEES})
    BY HolderIsFinite, FS_RemoveElement
  <2>4. Total(Holder) = 0 + Total(Holder \ {VAULT})
    BY <2>1, <2>2, <2>3, SumTakesEach
  <2>5. Total(Holder \ {VAULT}) = 0 + Total((Holder \ {VAULT}) \ {FEES})
    BY <2>1, <2>2, <2>3, SumTakesEach
  <2>6. Total((Holder \ {VAULT}) \ {FEES}) = 0 + Total(User)
    BY <2>1, <2>2, <2>3, SumTakesEach
  <2>7. Total(User) = SumFunctionOnSet(own, User)
    BY <2>1, UserAssumption, SumOfEqualTerms
  <2>8. Total(User) \in Int /\ Total(User) <= U128_MAX
    <3>1. User \subseteq Holder
      BY DEF Holder
    <3> QED BY <2>2, <2>7, <3>1, UserAssumption, SumOfIntegers, SupplyAssumption
  <2> QED BY <2>4, <2>5, <2>6, <2>8 DEF h
<1> QED BY <1>1, <1>2, <1>3 DEF ClientInv, LedgersFit

\* A step that neither asks for a quote nor sends one nor takes one.
Bystanding ==
    \/ SubmitSyncReserves
    \/ \E x \in Authority : SubmitTransferOwnership(x)
    \/ \E s \in Side, u \in User \ Client, n \in Input : SubmitWithdrawProtocolFees(s, u, n)
    \/ \E u \in User \ Client : Outsider(u) /\ UNCHANGED intent
    \/ \E u \in Client, t \in Token : OpenHolding(u, t) /\ UNCHANGED intent
    \/ \E x \in Derived : Squat(x) /\ UNCHANGED intent
    \/ \E x \in Authority, f \in SwapFee, p \in ProtocolFee :
          Initialize(x, f, p) /\ UNCHANGED intent

LEMMA BystandersLeaveTheQuotes ==
  ASSUME PoolInv, Bystanding
  PROVE  PoolStep /\ UNCHANGED intent
<1>1. UNCHANGED intent
  BY DEF Bystanding, SubmitSyncReserves, SubmitTransferOwnership, SubmitWithdrawProtocolFees
<1>2. ASSUME SyncReserves PROVE PoolStep
  <2>1. PoolInv' /\ ShareStep
    BY <1>2, AddressesAreLeft, SyncKeepsPoolInv, SyncIsFair DEF PoolInv, SyncReserves
  <2>2. UNCHANGED <<holding, initialized, config>>
    BY <1>2 DEF SyncReserves
  <2>3. BackingStep
    BY <2>1, <2>2, BackingFollows
  <2> QED BY <2>1, <2>2, <2>3 DEF PoolStep, FeeStays, LedgerStep
<1>3. PoolStep
  BY <1>2, OutsiderIsAPoolStep, AdminIsAPoolStep, AddressesAreAPoolStep
     DEF Bystanding, SubmitSyncReserves
<1> QED BY <1>1, <1>3

Submission(u) ==
    \/ SubmitSwapExactInput(u) \/ SubmitSwapExactOutput(u) \/ SubmitCreatePool(u)
    \/ SubmitAddLiquidity(u) \/ SubmitRemoveLiquidity(u)

LEMMA ClientSteps ==
  ASSUME ClientNext
  PROVE  \/ \E u \in Client, pair \in Pair, tolerance \in Slippage :
                Request(u, pair, tolerance)
         \/ \E u \in Client : Submission(u)
         \/ \E u \in Client : Land(u)
         \/ \E u \in Client : Vanish(u)
         \/ Bystanding
BY Zenon DEF ClientNext, Submission, Bystanding

LEMMA NextKeepsClientInv == ClientInv /\ [ClientNext]_clientVars => ClientInv'
<1> SUFFICES ASSUME ClientInv, [ClientNext]_clientVars PROVE ClientInv'
  OBVIOUS
<1>1. CASE \E u \in Client, pair \in Pair, tolerance \in Slippage : Request(u, pair, tolerance)
  BY <1>1, RequestKeepsClientInv
<1>2. CASE \E u \in Client : Submission(u)
  BY <1>2, SubmitKeepsClientInv
     DEF Submission, SubmitSwapExactInput, SubmitSwapExactOutput, SubmitCreatePool,
         SubmitAddLiquidity, SubmitRemoveLiquidity
<1>3. ASSUME NEW u \in Client, Land(u)
      PROVE  ClientInv'
  <2>1. intent' = [intent EXCEPT ![u] = REJECTED]
    BY <1>3 DEF Land
  <2> QED BY <1>3, <2>1, LandIsAPoolStep, QuotesStayPriced
<1>4. ASSUME NEW u \in Client, Vanish(u)
      PROVE  ClientInv'
  <2>1. intent' = [intent EXCEPT ![u] = REJECTED] /\ UNCHANGED vars /\ PoolInv
    BY <1>4 DEF Vanish, ClientInv
  <2> QED BY <2>1, StillPool, QuotesStayPriced
<1>5. CASE Bystanding
  BY <1>5, BystandersLeaveTheQuotes, QuotesStay DEF ClientInv
<1>6. CASE UNCHANGED clientVars
  <2>1. UNCHANGED vars /\ UNCHANGED intent /\ PoolInv
    BY <1>6 DEF clientVars, ClientInv
  <2> QED BY <2>1, StillPool, QuotesStay
<1> QED BY <1>1, <1>2, <1>3, <1>4, <1>5, <1>6, ClientSteps

\* Quotes, submissions and other people's steps do not land u's transaction.
LEMMA OnlyLandingLands ==
  ASSUME ClientInv, ClientNext, NEW u \in Client, Landed(u)
  PROVE  InFlight(u) /\ Execute(u, intent[u])
<1>1. /\ intent[u] # REJECTED /\ intent'[u] = REJECTED /\ ~(UNCHANGED vars) /\ InFlight(u)
      /\ PoolInv
  BY DEF Landed, InFlight, ClientInv
<1>2. ASSUME \E v \in Client, pair \in Pair, tolerance \in Slippage : Request(v, pair, tolerance)
      PROVE  UNCHANGED vars
  BY <1>2 DEF Request, SwapExactInQuote, SwapExactOutQuote, CreatePoolQuote, AddLiquidityQuote,
              RemoveLiquidityQuote, Show
<1>3. ASSUME \E v \in Client : Submission(v)
      PROVE  UNCHANGED vars
  BY <1>3 DEF Submission, SubmitSwapExactInput, SubmitSwapExactOutput, SubmitCreatePool,
              SubmitAddLiquidity, SubmitRemoveLiquidity, Submit
<1>4. ASSUME \E v \in Client : Vanish(v)
      PROVE  UNCHANGED vars
  BY <1>4 DEF Vanish
<1>5. ASSUME Bystanding
      PROVE  intent'[u] = intent[u]
  BY <1>1, <1>5, BystandersLeaveTheQuotes
<1>6. ASSUME NEW v \in Client, Land(v), v # u
      PROVE  intent'[u] = intent[u]
  BY <1>6 DEF Land, ClientInv, IntentIsAMap
<1>7. Land(u)
  BY <1>1, <1>2, <1>3, <1>4, <1>5, <1>6, ClientSteps
<1> QED BY <1>7 DEF Land

LEMMA ClientStepsKeepTheirWord ==
  ASSUME ClientInv, ClientNext, NEW u \in Client, Landed(u)
  PROVE  MovesAsAccepted(u) /\ (PoolRead = intent[u].pool => MovesAsShown(u))
BY OnlyLandingLands, LandingKeepsItsWord

---------------------------------------------------------------------------
(* What the program accepts of a user who can pay                          *)

Fits == PoolInv /\ LedgersFit /\ SharesAreBacked

\* Two holdings of a token never overflow one.
LEMMA TwoHoldingsFit ==
  ASSUME Fits, NEW s \in Side, NEW x \in Holder, NEW y \in Holder, x # y
  PROVE  /\ holding[s][x] \in Nat /\ holding[s][y] \in Nat
         /\ holding[s][x] + holding[s][y] <= U128_MAX
<1> DEFINE h == holding[s]
           rest == SumFunctionOnSet(h, Holder \ {x})
<1>1. \A z \in Holder : h[z] \in Nat
  BY SideLedgers DEF Fits, PoolInv, Amount
<1> HIDE DEF h
<1>2. SumFunctionOnSet(h, Holder) = h[x] + rest
  BY <1>1, HolderIsFinite, SumTakesEach
<1>3. rest \in Nat /\ h[y] <= rest
  <2>1. IsFiniteSet(Holder \ {x}) /\ y \in Holder \ {x}
    BY HolderIsFinite, FS_RemoveElement
  <2> QED BY <1>1, <2>1, SumCoversEachTerm
<1>4. SumFunctionOnSet(h, Holder) <= U128_MAX
  BY DEF Fits, LedgersFit, h
<1>5. h[x] + h[y] <= U128_MAX
  <2> HIDE DEF rest
  <2> QED BY <1>1, <1>2, <1>3, <1>4, NumberAssumption
<1> QED BY <1>1, <1>5 DEF h

\* What a holder owns of the shares, with what is locked, the pool knows of.
LEMMA SharesFit ==
  ASSUME PoolInv, initialized, NEW u \in User
  PROVE  /\ holding["lp"][u] \in Nat
         /\ holding["lp"][u] <= lp_total_supply
         /\ holding["lp"][u] + MINIMUM_LIQUIDITY <= liquidity_pool_supply
<1> DEFINE h == holding["lp"]
           rest == SumFunctionOnSet(h, Holder \ {u})
<1>1. \A z \in Holder : h[z] \in Nat
  BY DEF PoolInv, TypeOK, Token, Amount
<1>2. /\ lp_total_supply = SumFunctionOnSet(h, Holder)
      /\ lp_total_supply <= liquidity_pool_supply /\ h[LOCK] >= MINIMUM_LIQUIDITY
      /\ lp_total_supply \in Nat /\ liquidity_pool_supply \in Nat
  BY DEF PoolInv, TypeOK, PoolIsSolvent, LpSupplyIsTracked, LiquidityStaysLocked, Amount
<1>3. u \in Holder /\ LOCK \in Holder \ {u}
  BY HolderAssumption DEF Holder
<1> HIDE DEF h
<1>4. SumFunctionOnSet(h, Holder) = h[u] + rest
  BY <1>1, <1>3, HolderIsFinite, SumTakesEach
<1>5. rest \in Nat /\ h[LOCK] <= rest
  <2>1. IsFiniteSet(Holder \ {u})
    BY HolderIsFinite, FS_RemoveElement
  <2> QED BY <1>1, <1>3, <2>1, SumCoversEachTerm
<1>6. /\ h[u] \in Nat /\ h[u] <= lp_total_supply
      /\ h[u] + MINIMUM_LIQUIDITY <= liquidity_pool_supply
  <2> HIDE DEF rest
  <2> QED BY <1>1, <1>2, <1>3, <1>4, <1>5, NumberAssumption
<1> QED BY <1>6 DEF h

\* Whoever has the input, and a holding for the output, can swap for an output the
\* reserves cover, unless another account sits where the protocol's cut goes: the three
\* transfers and the checked sums succeed.
LEMMA SwapFits ==
  ASSUME Fits, initialized, NEW u \in User, NEW s \in Side,
         NEW n \in Nat, n <= holding[s][u], NEW e \in Nat, e <= n,
         NEW out \in Nat, out < reserve[Other(s)], HoldingsExist(u), taken = {}
  PROVE  validate_swap_setup /\ config.initialized /\ CanExecuteSwap(u, s, n, e, out)
<1> DEFINE o == Other(s)
           fee == cut(n, e)
           net == net_deposit(n, fee)
           paid == Paid(u, s, n)
<1>1. /\ u \in Holder /\ VAULT \in Holder /\ FEES \in Holder
      /\ u # VAULT /\ VAULT # FEES /\ u # FEES
      /\ o \in Side /\ s # o /\ Side = {s, o} /\ PoolInv
  BY HolderAssumption, OtherSide DEF Holder, Fits
<1>2. /\ validate_swap_setup /\ config.initialized
      /\ \A r \in Side : reserve[r] \in Nat \ {0} /\ reserve[r] <= holding[r][VAULT]
  BY <1>1, PoolIsOpen DEF validate_swap_setup, PoolInv, VaultsExist
<1>3. fee \in Nat /\ fee <= n
  <2>1. n - e \in Nat /\ n - e <= n
    OBVIOUS
  <2>2. config.protocol_fee_bps \in Nat /\ config.protocol_fee_bps <= FEE_BPS_DENOMINATOR
    BY <1>1, <1>2 DEF PoolInv, TypeOK, FeesAreValid, ValidFees
  <2>3. fee \in Nat /\ fee <= n - e
    BY <2>1, <2>2, CutIsPartOfTheFee DEF cut
  <2> HIDE DEF fee
  <2> QED BY <2>1, <2>3
<1> HIDE DEF fee
<1>4. /\ holding[s][u] \in Nat /\ holding[s][VAULT] \in Nat /\ holding[s][FEES] \in Nat
      /\ holding[s][u] + holding[s][VAULT] <= U128_MAX
      /\ holding[s][u] + holding[s][FEES] <= U128_MAX
      /\ holding[o][u] \in Nat /\ holding[o][VAULT] \in Nat
      /\ holding[o][u] + holding[o][VAULT] <= U128_MAX
  BY <1>1, TwoHoldingsFit
<1>5. Transferable(holding[s], u, VAULT, n) /\ Transferable(holding[o], VAULT, u, out)
  BY <1>1, <1>2, <1>4, NumberAssumption DEF Transferable
<1>6. paid[VAULT] = holding[s][VAULT] + n /\ paid[FEES] = holding[s][FEES]
  <2>1. holding[s] \in [Holder -> Amount]
    BY <1>1, SideLedgers DEF PoolInv
  <2> QED BY <1>1, <1>5, <2>1, TransferMoves DEF Paid
<1> HIDE DEF paid
<1>7. Transferable(paid, VAULT, FEES, fee)
  BY <1>3, <1>4, <1>6, NumberAssumption DEF Transferable
<1>8. net \in Nat /\ net <= n
  BY <1>3 DEF net_deposit
<1> HIDE DEF net
<1>9. reserve[s] + net <= U128_MAX /\ reserve[o] >= out
  BY <1>1, <1>2, <1>4, <1>8, NumberAssumption
<1>10. HasSpotPrice([reserve EXCEPT ![s] = @ + net, ![o] = @ - out])
  <2>1. reserve[s] + net # 0 /\ reserve[o] - out # 0
    BY <1>1, <1>2, <1>8
  <2>2. reserve \in [Side -> Amount] /\ "a" \in Side
    BY <1>1 DEF PoolInv, TypeOK, Side
  <2> HIDE DEF o
  <2> QED BY <1>1, <2>1, <2>2 DEF HasSpotPrice
<1> QED BY <1>2, <1>5, <1>7, <1>9, <1>10 DEF CanExecuteSwap, net, fee, paid

\* A product of two u128 values has a root, and it is one.
LEMMA RootExists ==
  ASSUME NEW x \in Amount, NEW y \in Amount
  PROVE  \E l \in Amount : IsIsqrt(l, x * y)
<1> DEFINE p == x * y
           T == {k \in Nat : p < (k + 1) * (k + 1)}
           M == U128_MAX
<1>1. x \in Nat /\ y \in Nat /\ x <= M /\ y <= M /\ M \in Nat
  BY NumberAssumption DEF Amount
<1>2. p \in Nat /\ p <= M * M /\ M * M \in Nat
  BY <1>1, ProductIsNat, ProductsAreOrdered
<1>3. M \in T
  <2>1. M * M < (M + 1) * (M + 1) /\ (M + 1) * (M + 1) \in Int
    BY <1>1
  <2> HIDE DEF p, M
  <2> QED BY <1>1, <1>2, <2>1
<1>4. PICK k \in T : \A m \in T : k <= m
  <2> HIDE DEF T
  <2>1. T \subseteq Nat
    BY DEF T
  <2> QED BY <1>3, <2>1, LeastNatural
<1>5. k \in Nat /\ p < (k + 1) * (k + 1) /\ k <= M
  BY <1>3, <1>4
<1>6. k * k <= p
  <2>1. CASE k = 0
    <3> HIDE DEF p
    <3> QED BY <1>2, <2>1
  <2>2. CASE k # 0
    <3>1. k - 1 \in Nat /\ (k - 1) + 1 = k /\ ~(k <= k - 1)
      BY <1>5, <2>2
    <3>2. k - 1 \notin T
      <4> HIDE DEF T
      <4> QED BY <1>4, <3>1
    <3>3. ~(p < k * k)
      <4> HIDE DEF p
      <4> QED BY <3>1, <3>2
    <3>4. k * k \in Int
      BY <1>5
    <3> HIDE DEF p
    <3> QED BY <1>2, <3>3, <3>4
  <2> QED BY <2>1, <2>2
<1> HIDE DEF p, T
<1>7. k \in Amount /\ IsIsqrt(k, p)
  BY <1>1, <1>5, <1>6 DEF Amount, IsIsqrt
<1> QED BY <1>7 DEF p

LEMMA SquaresAreOrdered ==
  ASSUME NEW x \in Nat, NEW y \in Nat, x * x <= y * y
  PROVE  x <= y
<1>1. SUFFICES ASSUME y + 1 <= x PROVE FALSE
  OBVIOUS
<1>2. (y + 1) * (y + 1) <= x * x
  BY <1>1, ProductsAreOrdered
<1>3. y * y < (y + 1) * (y + 1) /\ x * x \in Int /\ y * y \in Int /\ (y + 1) * (y + 1) \in Int
  OBVIOUS
<1> QED BY <1>2, <1>3

\* Whoever has both amounts can deposit them: the transfers, the mint and the checked
\* sums succeed.
LEMMA DepositFits ==
  ASSUME Fits, initialized, NEW u \in User, NEW amount \in [Side -> Nat], NEW minted \in Nat,
         \A s \in Side : amount[s] <= holding[s][u],
         \A s \in Side : reserve[s] * minted <= amount[s] * liquidity_pool_supply
  PROVE  CanDeposit(u, u, amount, minted)
<1> DEFINE l == liquidity_pool_supply
           k == l + minted
           new == [s \in Side |-> reserve[s] + amount[s]]
<1>1. /\ u \in Holder /\ VAULT \in Holder /\ u # VAULT /\ PoolInv /\ U128_MAX \in Nat
      /\ "a" \in Side /\ "b" \in Side
  BY HolderAssumption, NumberAssumption DEF Holder, Fits, Side
<1>2. l \in Nat \ {0} /\ k \in Nat
  BY <1>1, PoolIsOpen
<1>3. ASSUME NEW s \in Side
      PROVE  /\ reserve[s] \in Nat \ {0} /\ new[s] = reserve[s] + amount[s]
             /\ new[s] \in Nat \ {0} /\ new[s] <= U128_MAX
             /\ Transferable(holding[s], u, VAULT, amount[s])
  <2>1. /\ reserve[s] \in Nat \ {0} /\ reserve[s] <= holding[s][VAULT]
        /\ amount[s] \in Nat /\ amount[s] <= holding[s][u]
    BY <1>1, PoolIsOpen
  <2>2. /\ holding[s][u] \in Nat /\ holding[s][VAULT] \in Nat
        /\ holding[s][u] + holding[s][VAULT] <= U128_MAX
    BY <1>1, TwoHoldingsFit
  <2> QED BY <1>1, <2>1, <2>2 DEF Transferable
<1>4. ASSUME NEW s \in Side
      PROVE  reserve[s] * k <= new[s] * l
  <2>1. /\ reserve[s] * (l + minted) = reserve[s] * l + reserve[s] * minted
        /\ (reserve[s] + amount[s]) * l = reserve[s] * l + amount[s] * l
        /\ reserve[s] * l \in Int /\ reserve[s] * minted \in Int /\ amount[s] * l \in Int
    BY <1>2, <1>3
  <2>2. reserve[s] * minted <= amount[s] * l
    OBVIOUS
  <2> QED BY <1>3, <2>1, <2>2
<1> HIDE DEF l, k, new
<1>5. (reserve["a"] * reserve["b"]) * (k * k) <= (new["a"] * new["b"]) * (l * l)
  BY <1>1, <1>2, <1>3, <1>4, SharesKeepTheirWorth
<1>6. k * k <= new["a"] * new["b"]
  <2>1. /\ reserve["a"] * reserve["b"] \in Nat /\ new["a"] * new["b"] \in Nat
        /\ l * l \in Nat \ {0} /\ k * k \in Nat
    BY <1>1, <1>2, <1>3, ProductIsNat
  <2>2. l * l <= reserve["a"] * reserve["b"]
    BY DEF Fits, SharesAreBacked, l
  <2> QED BY <1>5, <2>1, <2>2, FactorIsCovered
<1>7. new["a"] * new["b"] <= U128_MAX * U128_MAX
  BY <1>1, <1>3, ProductsAreOrdered
<1>8. k <= U128_MAX
  <2>1. k * k \in Int /\ new["a"] * new["b"] \in Int /\ U128_MAX * U128_MAX \in Int
    BY <1>1, <1>2, <1>3
  <2>2. k * k <= U128_MAX * U128_MAX
    BY <1>6, <1>7, <2>1
  <2> QED BY <1>1, <1>2, <2>2, SquaresAreOrdered
<1>9. l + minted <= U128_MAX
  BY <1>8 DEF k
<1>10. lp_total_supply + minted <= U128_MAX /\ holding["lp"][u] + minted <= U128_MAX
  <2>1. /\ lp_total_supply <= l /\ lp_total_supply \in Nat
        /\ holding["lp"][u] \in Nat /\ holding["lp"][u] <= lp_total_supply
    BY <1>1, SharesFit DEF PoolInv, TypeOK, PoolIsSolvent, LpSupplyIsTracked, Amount, l
  <2> QED BY <1>1, <1>2, <1>9, <2>1
<1> QED BY <1>1, <1>3, <1>9, <1>10 DEF CanDeposit, HasSpotPrice, new, l

\* Whoever has the LP tokens, and a holding of either side, can take their share of the
\* reserves out, if it is worth what is asked for and that is not nothing.
LEMMA RemovalFits ==
  ASSUME Fits, initialized, NEW u \in User, NEW n \in Nat \ {0}, n <= holding["lp"][u],
         NEW min, \A s \in Side : min[s] # 0,
         \A s \in Side : withdraw_amount(liquidity_pool_supply, reserve, n)[s] >= min[s],
         HoldingsExist(u)
  PROVE  CanRemoveLiquidity(u, n, min)
<1> DEFINE l == liquidity_pool_supply
           amount == withdraw_amount(l, reserve, n)
<1>1. /\ u \in Holder /\ VAULT \in Holder /\ u # VAULT /\ PoolInv
      /\ MINIMUM_LIQUIDITY \in Nat \ {0} /\ "a" \in Side
  BY HolderAssumption, NumberAssumption DEF Holder, Fits, Side
<1>2. config.initialized /\ l \in Nat \ {0} /\ HoldingsExist(VAULT)
  BY <1>1, PoolIsOpen DEF PoolInv, VaultsExist
<1>3. /\ holding["lp"][u] \in Nat /\ holding["lp"][u] <= lp_total_supply
      /\ holding["lp"][u] + MINIMUM_LIQUIDITY <= l /\ lp_total_supply \in Nat
  BY <1>1, SharesFit DEF PoolInv, TypeOK, Amount
<1>4. /\ holding["lp"][u] <= l /\ l > MINIMUM_LIQUIDITY
      /\ n <= l - MINIMUM_LIQUIDITY /\ n < l /\ lp_total_supply >= n
  BY <1>1, <1>2, <1>3
<1> HIDE DEF l
<1>5. ASSUME NEW s \in Side
      PROVE  /\ reserve[s] \in Nat /\ amount[s] \in Nat /\ amount[s] < reserve[s]
             /\ Transferable(holding[s], VAULT, u, amount[s])
  <2>1. reserve[s] \in Nat \ {0} /\ reserve[s] <= holding[s][VAULT]
    BY <1>1, PoolIsOpen
  <2>2. amount[s] \in Nat /\ amount[s] * l <= reserve[s] * n
    BY <1>2, <2>1, ShareIsCovered DEF withdraw_amount
  <2> HIDE DEF amount
  <2>3. amount[s] < reserve[s]
    BY <1>2, <1>4, <2>1, <2>2, WithdrawalLeavesReserves
  <2>4. /\ holding[s][u] \in Nat /\ holding[s][VAULT] \in Nat
        /\ holding[s][u] + holding[s][VAULT] <= U128_MAX
    BY <1>1, TwoHoldingsFit
  <2> QED BY <2>1, <2>2, <2>3, <2>4, NumberAssumption DEF Transferable
<1> HIDE DEF amount
<1>6. CanPayOut(u, n, amount)
  BY <1>1, <1>4, <1>5 DEF CanPayOut, HasSpotPrice
<1> QED BY <1>2, <1>4, <1>6 DEF CanRemoveLiquidity, unlocked_liquidity, amount, l

---------------------------------------------------------------------------
(* What is quoted can be done                                              *)

LEMMA InputsAreNaturals == Input \subseteq Nat
BY NumberAssumption DEF Amount

LEMMA SwapInIsExecutable ==
  ASSUME Fits, initialized, NEW u \in User, NEW q, Priced(q, config.swap_fee_bps),
         q.op = "swap_in", PoolRead = q.pool, Funded(u, q), taken = {}
  PROVE  CanExecute(u, q)
<1> DEFINE i == q.pair[1]
           n == q.expected[1]
           e == effective_amount_in(n, config.swap_fee_bps)
           out == amount_out(reserve[i], reserve[Other(i)], e)
<1>1. /\ PricedSwapIn(q, config.swap_fee_bps) /\ q.pair \in Pair
      /\ q.tolerance \in Nat /\ q.tolerance < D /\ q.pool.reserve = reserve
  BY DEF Priced, IsQuote, PoolRead
<1>2. i \in Side /\ q.pair[2] = Other(i) /\ Other(i) \in Side
  BY <1>1, PairsAreSides
<1>3. /\ n \in Nat /\ n <= holding[i][u]
      /\ e # 0 /\ out # 0 /\ q.limit[1] = n /\ q.limit[2] = slippage_floor(out, q.tolerance)
  <2>1. n \in Nat
    BY <1>1, InputsAreNaturals DEF PricedSwapIn
  <2>2. holding[i][u] \in Int /\ holding[i][u] >= n
    BY <1>2, SideLedgers DEF Funded, Fits, PoolInv, Holder, Amount
  <2> QED BY <1>1, <1>2, <2>1, <2>2 DEF PricedSwapIn
<1>4. /\ config.swap_fee_bps \in Nat /\ config.swap_fee_bps < FEE_BPS_DENOMINATOR
      /\ reserve[i] \in Nat \ {0} /\ reserve[Other(i)] \in Nat \ {0}
  BY <1>2, PoolIsOpen DEF Fits
<1>5. e \in Nat /\ e <= n
  <2> HIDE DEF n
  <2> QED BY <1>3, <1>4, EffectiveIsPartOfTheInput
<1>6. out \in Nat /\ out < reserve[Other(i)]
  <2> HIDE DEF e
  <2> QED BY <1>4, <1>5, OutputIsCovered
<1>7. q.limit[2] <= out
  <2> HIDE DEF out
  <2> QED BY <1>1, <1>3, <1>6, FloorIsBelow
<1> HIDE DEF out, e, n, i
<1>8. validate_swap_setup /\ config.initialized /\ CanExecuteSwap(u, i, n, e, out)
  BY <1>2, <1>3, <1>5, <1>6, SwapFits DEF Funded
<1>9. priced_in(n) = e /\ swap_output(i, n) = out
  BY DEF priced_in, swap_output, e, out
<1>10. CanSwapExactInput(u, i, n, q.limit[2])
  BY <1>3, <1>7, <1>8, <1>9 DEF CanSwapExactInput
<1> QED BY <1>3, <1>10 DEF CanExecute, swap_exact_in_plan, i

LEMMA SwapOutIsExecutable ==
  ASSUME Fits, initialized, NEW u \in User, NEW q, Priced(q, config.swap_fee_bps),
         q.op = "swap_out", PoolRead = q.pool, Funded(u, q), taken = {}
  PROVE  CanExecute(u, q)
<1> DEFINE i == q.pair[1]
           out == q.expected[2]
           e == effective_in_min(out, reserve[i], reserve[Other(i)])
           n == required_in(e, config.swap_fee_bps)
<1>1. /\ PricedSwapOut(q, config.swap_fee_bps) /\ q.pair \in Pair
      /\ q.tolerance \in Nat /\ q.pool.reserve = reserve
  BY DEF Priced, IsQuote, PoolRead
<1>2. i \in Side /\ q.pair[2] = Other(i) /\ Other(i) \in Side
  BY <1>1, PairsAreSides
<1>3. /\ out \in Nat \ {0} /\ out < reserve[Other(i)] /\ n <= holding[i][u]
      /\ q.limit[2] = out /\ q.limit[1] = slippage_ceiling(n, q.tolerance)
  <2>1. out \in Nat \ {0} /\ n = q.expected[1] /\ n \in Nat
    BY <1>1, <1>2, InputsAreNaturals DEF PricedSwapOut
  <2>2. holding[i][u] \in Int /\ holding[i][u] >= q.expected[1]
    BY <1>2, SideLedgers DEF Funded, Fits, PoolInv, Holder, Amount
  <2> HIDE DEF n, i
  <2>3. n <= holding[i][u]
    BY <2>1, <2>2
  <2> QED BY <1>1, <1>2, <2>1, <2>3 DEF PricedSwapOut, i
<1>4. /\ config.swap_fee_bps \in Nat /\ config.swap_fee_bps < FEE_BPS_DENOMINATOR
      /\ reserve[i] \in Nat \ {0} /\ reserve[Other(i)] \in Nat \ {0}
  BY <1>2, PoolIsOpen DEF Fits
<1>5. e \in Nat
  <2> HIDE DEF out
  <2> QED BY <1>3, <1>4, InputIsCovered
<1>6. n \in Nat /\ e <= n
  <2> HIDE DEF e
  <2> QED BY <1>4, <1>5, RequiredCoversTheEffective
<1>7. n <= q.limit[1] /\ n <= U128_MAX
  <2> HIDE DEF n
  <2>1. n <= q.limit[1]
    BY <1>1, <1>3, <1>6, CeilingIsAbove
  <2>2. holding[i][u] \in Amount
    BY <1>2, SideLedgers DEF Fits, PoolInv, Holder
  <2> QED BY <1>3, <1>6, <2>1, <2>2, NumberAssumption DEF Amount
<1> HIDE DEF out, e, n, i
<1>8. validate_swap_setup /\ config.initialized /\ CanExecuteSwap(u, i, n, e, out)
  BY <1>2, <1>3, <1>5, <1>6, SwapFits DEF Funded
<1>9. priced_out(i, out) = e /\ swap_input(i, out) = n
  BY DEF priced_out, swap_input, e, n
<1>10. CanSwapExactOutput(u, i, out, q.limit[1])
  BY <1>3, <1>4, <1>7, <1>8, <1>9 DEF CanSwapExactOutput
<1> QED BY <1>3, <1>10 DEF CanExecute, swap_exact_out_plan, i

LEMMA CreateIsExecutable ==
  ASSUME Fits, ~initialized, config.initialized, NEW u \in User, NEW q,
         Priced(q, config.swap_fee_bps), q.op = "create", Funded(u, q), taken = {}
  PROVE  CanExecute(u, q)
<1> DEFINE amount == Stored(q.pair, q.limit)
           product == q.limit[1] * q.limit[2]
           root == CHOOSE l \in 0..U128_MAX : IsIsqrt(l, product)
<1>1. PricedCreate(q) /\ q.pair \in Pair
  BY DEF Priced, IsQuote
<1>2. /\ q.limit[1] \in Nat \ {0} /\ q.limit[2] \in Nat \ {0} /\ q.expected = q.limit
      /\ root > MINIMUM_LIQUIDITY
  BY <1>1 DEF PricedCreate
<1>3. /\ amount[q.pair[1]] = q.limit[1] /\ amount[q.pair[2]] = q.limit[2]
      /\ q.pair[1] \in Side /\ q.pair[2] \in Side /\ Side = {q.pair[1], q.pair[2]}
  BY <1>1, PairsAreSides, StoredIsBySide
<1>4. /\ u \in Holder /\ VAULT \in Holder /\ u # VAULT /\ U128_MAX \in Nat
  BY HolderAssumption, NumberAssumption DEF Holder
<1>5. amount["a"] * amount["b"] = product
  BY <1>1, <1>2, <1>3 DEF Pair
<1> HIDE DEF amount
<1>6. ASSUME NEW s \in Side
      PROVE  /\ amount[s] # 0 /\ amount[s] \in Amount
             /\ Transferable(holding[s], u, VAULT, amount[s])
  <2>1. amount[s] \in Nat \ {0} /\ amount[s] <= holding[s][u]
    BY <1>2, <1>3 DEF Funded
  <2>2. /\ holding[s][u] \in Nat /\ holding[s][VAULT] \in Nat
        /\ holding[s][u] + holding[s][VAULT] <= U128_MAX
    BY <1>4, TwoHoldingsFit
  <2> QED BY <1>4, <2>1, <2>2 DEF Transferable, Amount
<1>7. root \in Amount /\ IsIsqrt(root, product)
  <2>1. q.limit[1] \in Amount /\ q.limit[2] \in Amount
    BY <1>3, <1>6
  <2>2. \E l \in 0..U128_MAX : IsIsqrt(l, product)
    BY <2>1, RootExists DEF Amount
  <2> HIDE DEF product
  <2> QED BY <2>2 DEF Amount
<1> HIDE DEF root, product
<1>8. MINIMUM_LIQUIDITY + user_lp(root) <= U128_MAX
  BY <1>4, <1>7, NumberAssumption DEF user_lp, Amount
<1>9. CanNewDefinition(u, amount, root)
  BY <1>2, <1>5, <1>6, <1>7, <1>8 DEF CanNewDefinition, PoolAddressesFree, Funded
<1> QED BY <1>7, <1>9 DEF CanExecute, create_pool_plan, amount

LEMMA AddIsExecutable ==
  ASSUME Fits, initialized, NEW u \in User, NEW q, Priced(q, config.swap_fee_bps),
         q.op = "add", PoolRead = q.pool, Funded(u, q)
  PROVE  CanExecute(u, q)
<1> DEFINE max == Stored(q.pair, q.limit)
           amount == actual_amount(reserve, max)
           minted == delta_lp(liquidity_pool_supply, reserve, amount)
<1>1. /\ PricedAdd(q) /\ q.pair \in Pair /\ q.tolerance \in Nat /\ q.tolerance < D
      /\ q.pool.reserve = reserve /\ q.pool.supply = liquidity_pool_supply
  BY DEF Priced, IsQuote, PoolRead
<1>2. /\ q.limit[1] \in Input \ {0} /\ q.limit[2] \in Input \ {0}
      /\ \A s \in Side : ideal(reserve, max, s) <= U128_MAX /\ amount[s] # 0
      /\ q.expected = Displayed(q.pair, amount)
      /\ minted # 0 /\ q.limit_lp # 0 /\ q.limit_lp = slippage_floor(minted, q.tolerance)
  BY <1>1 DEF PricedAdd
<1>3. /\ max[q.pair[1]] = q.limit[1] /\ max[q.pair[2]] = q.limit[2]
      /\ q.pair[1] \in Side /\ q.pair[2] \in Side /\ Side = {q.pair[1], q.pair[2]}
  BY <1>1, PairsAreSides, StoredIsBySide
<1> HIDE DEF max
<1>4. /\ config.initialized /\ liquidity_pool_supply \in Nat
      /\ \A s \in Side : reserve[s] \in Nat \ {0} /\ reserve[s] <= holding[s][VAULT]
      /\ reserve \in [Side -> Nat \ {0}]
  BY PoolIsOpen DEF Fits, PoolInv, TypeOK
<1>5. \A s \in Side : max[s] \in Nat \ {0}
  BY <1>2, <1>3, InputsAreNaturals
<1>6. amount \in [Side -> Nat]
  <2>1. ASSUME NEW s \in Side
        PROVE  Min2(ideal(reserve, max, s), max[s]) \in Nat
    BY <1>4, <1>5, OtherSide, ShareIsCovered DEF ideal, Min2
  <2> QED BY <2>1 DEF actual_amount
<1> HIDE DEF amount
<1>7. \A s \in Side : amount[s] <= holding[s][u]
  <2>1. holding[q.pair[1]][u] >= amount[q.pair[1]] /\ holding[q.pair[2]][u] >= amount[q.pair[2]]
    BY <1>1, <1>2, DisplayedIsInOrder DEF Funded
  <2>2. \A s \in Side : holding[s][u] \in Int /\ amount[s] \in Int
    BY <1>6, SideLedgers DEF Fits, PoolInv, Holder, Amount
  <2> QED BY <1>3, <2>1, <2>2
<1>8. /\ minted \in Nat
      /\ \A s \in Side : reserve[s] * minted <= amount[s] * liquidity_pool_supply
  BY <1>4, <1>6, MintIsCovered
<1>9. minted = minted_lp(max)
  BY DEF minted_lp, amount
<1> HIDE DEF minted
<1>10. minted >= q.limit_lp
  BY <1>1, <1>2, <1>8, FloorIsBelow
<1>11. CanDeposit(u, u, amount, minted)
  BY <1>6, <1>7, <1>8, DepositFits
<1>12. CanAddLiquidity(u, u, max, q.limit_lp)
  <2>1. \A s \in Side : max[s] # 0 /\ reserve[s] # 0 /\ holding[s][VAULT] >= reserve[s]
    <3>1. \A s \in Side : holding[s][VAULT] \in Int
      BY PoolNumbers DEF Fits, PoolInv
    <3> QED BY <1>4, <1>5, <3>1
  <2>2. HoldingsExist(VAULT) /\ HoldingsExist(u)
    BY DEF Funded, Fits, PoolInv, VaultsExist
  <2> QED BY <1>2, <1>4, <1>9, <1>10, <1>11, <2>1, <2>2 DEF CanAddLiquidity, amount
<1> QED BY <1>12 DEF CanExecute, add_liquidity_plan, max

LEMMA RemoveIsExecutable ==
  ASSUME Fits, initialized, NEW u \in User, NEW q, Priced(q, config.swap_fee_bps),
         q.op = "remove", PoolRead = q.pool, Funded(u, q)
  PROVE  CanExecute(u, q)
<1> DEFINE min == Stored(q.pair, q.limit)
           amount == withdraw_amount(liquidity_pool_supply, reserve, q.lp)
<1>1. /\ PricedRemove(q) /\ q.pair \in Pair /\ q.tolerance \in Nat /\ q.tolerance < D
      /\ q.pool.reserve = reserve /\ q.pool.supply = liquidity_pool_supply
  BY DEF Priced, IsQuote, PoolRead
<1>2. /\ q.lp \in Nat \ {0} /\ q.expected = Displayed(q.pair, amount)
      /\ \A k \in 1..2 : /\ q.expected[k] \in Nat /\ q.limit[k] # 0
                         /\ q.limit[k] = slippage_floor(q.expected[k], q.tolerance)
  BY <1>1, InputsAreNaturals DEF PricedRemove
<1>3. /\ min[q.pair[1]] = q.limit[1] /\ min[q.pair[2]] = q.limit[2]
      /\ Side = {q.pair[1], q.pair[2]}
  BY <1>1, PairsAreSides, StoredIsBySide
<1>4. \A k \in 1..2 : q.limit[k] <= q.expected[k]
  BY <1>1, <1>2, FloorIsBelow
<1>5. q.expected[1] = amount[q.pair[1]] /\ q.expected[2] = amount[q.pair[2]]
  <2> HIDE DEF amount
  <2> QED BY <1>1, <1>2, DisplayedIsInOrder
<1> HIDE DEF min, amount
<1>6. \A s \in Side : min[s] # 0 /\ amount[s] >= min[s]
  <2>1. /\ q.limit[1] # 0 /\ q.limit[2] # 0
        /\ q.limit[1] \in Nat /\ q.limit[2] \in Nat
        /\ q.limit[1] <= q.expected[1] /\ q.limit[2] <= q.expected[2]
        /\ q.expected[1] \in Nat /\ q.expected[2] \in Nat
    BY <1>1, <1>2, <1>4, FloorIsBelow
  <2> QED BY <1>3, <1>5, <2>1
<1>7. q.lp <= holding["lp"][u]
  <2>1. holding["lp"][u] >= q.lp /\ holding["lp"][u] \in Int
    BY SharesFit DEF Funded, Fits
  <2> QED BY <1>2, <2>1
<1>8. CanRemoveLiquidity(u, q.lp, min)
  BY <1>2, <1>6, <1>7, RemovalFits DEF amount, Funded
<1> QED BY <1>8 DEF CanExecute, remove_liquidity_plan, min

LEMMA QuotesAreExecutable == ClientInv => QuotedMeansExecutable
<1> SUFFICES ASSUME ClientInv, NEW u \in Client, intent[u] # REJECTED,
                    PoolRead = intent[u].pool, intent[u].op = "create" <=> ~initialized,
                    Funded(u, intent[u]), taken = {}
             PROVE  CanExecute(u, intent[u])
  BY DEF QuotedMeansExecutable
<1>1. /\ Fits /\ u \in User /\ config.initialized /\ Priced(intent[u], config.swap_fee_bps)
      /\ intent[u].op \in {"swap_in", "swap_out", "create", "add", "remove"}
  BY ClientAssumption DEF ClientInv, Fits, QuotesArePriced, Priced, IsQuote
<1> QED BY <1>1, SwapInIsExecutable, SwapOutIsExecutable, CreateIsExecutable, AddIsExecutable,
           RemoveIsExecutable

\* A quote to leave is a quote, not a rejection.
LEMMA RemovalQuoteIsAQuote ==
  ASSUME PoolInv, NEW pair \in Pair, NEW n \in Nat, NEW shown \in TwoAmounts,
         NEW least \in TwoAmounts
  PROVE  Quote("remove", pair, 0, shown, n, least, n) # REJECTED
<1> DEFINE pool == [supply |-> liquidity_pool_supply, reserve |-> reserve]
<1>1. pool \in [supply : Amount, reserve : [Side -> Amount]]
  BY DEF PoolInv, TypeOK
<1> HIDE DEF pool
<1>2. [op |-> "remove", pair |-> pair, tolerance |-> 0, expected |-> shown, lp |-> n,
       limit |-> least, limit_lp |-> n, pool |-> pool, sent |-> FALSE]
        \in [op : {"swap_in", "swap_out", "create", "add", "remove"},
             pair : Pair, tolerance : Nat, expected : TwoAmounts, lp : Nat,
             limit : TwoAmounts, limit_lp : Nat,
             pool : [supply : Amount, reserve : [Side -> Amount]], sent : BOOLEAN]
  BY <1>1
<1> QED BY <1>2, RejectedAssumption DEF Quote, PoolRead, pool

\* All of a client's LP tokens, at tolerance zero, into holdings that exist.
LEMMA ClientCanExit ==
  ASSUME Fits, initialized, NEW u \in User, NEW pair \in Pair,
         \A s \in Side :
            withdraw_amount(liquidity_pool_supply, reserve, holding["lp"][u])[s] >= 1
  PROVE  LET q == remove_liquidity_quote(pair, holding["lp"][u], 0)
         IN  q # REJECTED /\ (HoldingsExist(u) => CanExecute(u, q))
<1> DEFINE n == holding["lp"][u]
           l == liquidity_pool_supply
           amount == withdraw_amount(l, reserve, n)
           shown == Displayed(pair, amount)
           least == [k \in 1..2 |-> slippage_floor(shown[k], 0)]
           min == Stored(pair, least)
           q == Quote("remove", pair, 0, shown, n, least, n)
<1>1. /\ n \in Nat /\ n + MINIMUM_LIQUIDITY <= l /\ MINIMUM_LIQUIDITY \in Nat \ {0}
      /\ l \in Nat \ {0} /\ 0 \in Nat /\ 0 < D /\ PoolInv
      /\ \A s \in Side : reserve[s] \in Nat \ {0}
  BY SharesFit, PoolIsOpen, NumberAssumption DEF Fits, D
<1> HIDE DEF l, n
<1>2. \A s \in Side : amount[s] \in Nat /\ amount[s] * l <= reserve[s] * n /\ amount[s] >= 1
  BY <1>1, ShareIsCovered DEF withdraw_amount, l, n
<1>3. n # 0
  <2>1. PICK s \in Side : TRUE
    BY DEF Side
  <2> HIDE DEF amount
  <2>2. amount[s] * l >= 1
    BY <1>1, <1>2
  <2>3. ASSUME n = 0 PROVE reserve[s] * n = 0
    BY <1>1, <2>3
  <2>4. amount[s] * l \in Int /\ reserve[s] * n \in Int
    BY <1>1, <1>2
  <2> QED BY <1>2, <2>2, <2>3, <2>4
<1> HIDE DEF amount
<1>4. /\ shown[1] = amount[pair[1]] /\ shown[2] = amount[pair[2]]
      /\ pair[1] \in Side /\ pair[2] \in Side /\ Side = {pair[1], pair[2]}
      /\ shown = [k \in 1..2 |-> shown[k]]
  <2>1. shown = [k \in 1..2 |-> shown[k]]
    BY DEF Displayed
  <2> QED BY <2>1, PairsAreSides, DisplayedIsInOrder
<1> HIDE DEF shown
<1>5. /\ least = [k \in 1..2 |-> least[k]]
      /\ \A k \in 1..2 : shown[k] \in Nat /\ least[k] = shown[k] /\ least[k] # 0
  <2>1. shown[1] \in Nat /\ shown[2] \in Nat /\ shown[1] # 0 /\ shown[2] # 0
    BY <1>2, <1>4
  <2>2. \A k \in 1..2 : shown[k] \in Nat /\ shown[k] # 0
    BY <2>1
  <2>3. \A k \in 1..2 : slippage_floor(shown[k], 0) = shown[k]
    BY <1>1, <2>2, FloorIsBelow
  <2> QED BY <2>2, <2>3
<1> HIDE DEF least
<1>6. shown \in TwoAmounts /\ least \in TwoAmounts
  BY <1>4, <1>5 DEF TwoAmounts
<1>7. remove_liquidity_quote(pair, n, 0) = q
  <2>1. HasLiquidity
    BY <1>1 DEF HasLiquidity, l
  <2>2. /\ l > MINIMUM_LIQUIDITY /\ n <= unlocked_liquidity(l)
        /\ shown[1] # 0 /\ shown[2] # 0 /\ Floored(least)
    BY <1>1, <1>3, <1>5 DEF unlocked_liquidity, Floored
  <2> QED BY <1>1, <1>3, <2>1, <2>2
          DEF remove_liquidity_quote, D, l, amount, shown, least
<1>8. q # REJECTED
  BY <1>1, <1>6, RemovalQuoteIsAQuote
<1>9. HoldingsExist(u) => CanRemoveLiquidity(u, n, min)
  <2>1. /\ min[pair[1]] = amount[pair[1]] /\ min[pair[2]] = amount[pair[2]]
    BY <1>4, <1>5, StoredIsBySide
  <2> HIDE DEF min
  <2>2. \A s \in Side : min[s] # 0 /\ amount[s] >= min[s]
    BY <1>2, <1>4, <2>1
  <2>3. n <= holding["lp"][u]
    BY <1>1 DEF n
  <2> QED BY <1>1, <1>3, <2>2, <2>3, RemovalFits DEF amount, l
<1>10. q.op = "remove" /\ q.pair = pair /\ q.lp = n /\ q.limit = least
  BY DEF Quote
<1> HIDE DEF q
<1>11. HoldingsExist(u) => CanExecute(u, q)
  BY <1>9, <1>10 DEF CanExecute, remove_liquidity_plan, min
<1> QED BY <1>7, <1>8, <1>11 DEF n

LEMMA ClientsExit == ClientInv => EveryClientCanExit
<1> DEFINE q(u, pair) == remove_liquidity_quote(pair, holding["lp"][u], 0)
<1> SUFFICES ASSUME ClientInv, initialized, NEW u \in Client, NEW pair \in Pair,
                    \A s \in Side :
                       withdraw_amount(liquidity_pool_supply, reserve, holding["lp"][u])[s] >= 1
             PROVE  /\ q(u, pair) # REJECTED
                    /\ CanExecute(u, q(u, pair)) \/ \E s \in Side : CanOpenHolding(u, s)
  BY DEF EveryClientCanExit
<1>1. Fits /\ u \in User
  BY ClientAssumption DEF ClientInv, Fits
<1>2. q(u, pair) # REJECTED /\ (HoldingsExist(u) => CanExecute(u, q(u, pair)))
  BY <1>1, ClientCanExit
<1>3. ~HoldingsExist(u) => \E s \in Side : CanOpenHolding(u, s)
  BY DEF HoldingsExist, CanOpenHolding, Side
<1> QED BY <1>2, <1>3

---------------------------------------------------------------------------
(* Theorems                                                                *)

\* What was quoted follows from the pool that was read and from a fee that no step
\* changes (the quotes of modules/amm/ffi), and the pool stays sound under plans
\* whose limits the module computes.
THEOREM QuotesAreSound == ClientSpec => []ClientInv
<1> QED BY InitClientInv, NextKeepsClientInv, PTL DEF ClientSpec

\* Trading through the application leaves the pool able to pay whoever leaves.
THEOREM ClientsKeepItSolvent == ClientSpec => []PoolIsSolvent
<1>1. ClientInv => PoolIsSolvent
  BY DEF ClientInv, PoolInv
<1> QED BY <1>1, QuotesAreSound, PTL

\* On a pool nobody touched since the quote, the transaction moves exactly what
\* swap_exact_in_quote, swap_exact_out_quote, create_pool_quote and the liquidity quotes
\* showed, in the tokens shown.
THEOREM QuotesAreExact == ClientSpec => QuoteIsExact
<1>1. ClientInv /\ [ClientNext]_clientVars =>
        [\A u \in Client : (Landed(u) /\ PoolRead = intent[u].pool) => MovesAsShown(u)]_clientVars
  BY ClientStepsKeepTheirWord
<1> QED BY <1>1, QuotesAreSound, PTL DEF ClientSpec, QuoteIsExact

\* Whatever others do between the quote and the block, the transaction gives at most and
\* gets at least what the tolerance allows (the limits of the plans in modules/amm/ffi).
THEOREM TolerancesAreHonoured == ClientSpec => ToleranceIsHonoured
<1>1. ClientInv /\ [ClientNext]_clientVars =>
        [\A u \in Client : Landed(u) => MovesAsAccepted(u)]_clientVars
  BY ClientStepsKeepTheirWord
<1> QED BY <1>1, QuotesAreSound, PTL DEF ClientSpec, ToleranceIsHonoured

\* Every check the program makes of the numbers is mirrored by the module that quotes
\* (swap_exact_in_quote, swap_exact_out_quote, create_pool_quote, the liquidity quotes):
\* what it showed can be done by a user who can pay and has a holding of either token, on
\* a pool nobody touched, unless another account sits at an address the program derives.
THEOREM QuotesCanBeExecuted == ClientSpec => []QuotedMeansExecutable
<1> QED BY QuotesAreExecutable, QuotesAreSound, PTL

\* No lock, stale supply, floor or occupied address keeps a client in the pool:
\* remove_liquidity_quote offers all of its LP tokens' worth at tolerance zero, and
\* remove_liquidity accepts it from a client with a holding of either token.  A holding
\* that is missing, which remove_liquidity asks for, is the client's to open.
THEOREM ClientsCanExit == ClientSpec => []EveryClientCanExit
<1> QED BY ClientsExit, QuotesAreSound, PTL
=============================================================================
