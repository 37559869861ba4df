-------------------------- MODULE StablecoinProofs --------------------------
(***************************************************************************)
(* What the stablecoin program guarantees for every scale, band, gain, gap *)
(* and set of positions: of the redemption price and its controller, then  *)
(* of debt, fees and collateral.                                           *)
(*                                                                         *)
(* ControllerInv and BankInv are the inductive invariants.  Beyond the     *)
(* properties they hold what these need: an accumulator that never falls   *)
(* below 1.0, and vaults that hold at least what is on record.             *)
(***************************************************************************)
EXTENDS StablecoinClient, NumberTheorems

ONE == FIXED_POINT_ONE

---------------------------------------------------------------------------
(* Fixed-point arithmetic                                                  *)

LEMMA Scale ==
  /\ ONE \in Nat \ {0} /\ ORACLE_ONE \in Nat \ {0} /\ MAXIMUM_COMPOUNDING_WINDOW \in Nat
  /\ RATE_DELTA_CLAMP \in Nat \ {0} /\ RATE_DELTA_CLAMP < ONE
  /\ INTEGRAL_CLAMP = RATE_DELTA_CLAMP
  /\ MINIMUM_REDEMPTION_PRICE \in Nat \ {0} /\ MAXIMUM_REDEMPTION_PRICE \in Nat
  /\ MINIMUM_REDEMPTION_PRICE < MAXIMUM_REDEMPTION_PRICE
BY ScaleAssumption, ControllerAssumption DEF ONE

LEMMA MulDivIsNat ==
  ASSUME NEW a \in Nat, NEW b \in Nat, NEW c \in Nat \ {0}
  PROVE  MulDiv(a, b, c) \in Nat /\ MulDiv(a, b, c) * c <= a * b
<1>1. a * b \in Nat
  OBVIOUS
<1> QED BY <1>1, FloorIsRead DEF MulDiv

\* Scaling by a factor of at least 1.0 does not shrink.
LEMMA MulDivGrows ==
  ASSUME NEW a \in Nat, NEW b \in Nat, ONE <= b
  PROVE  MulDiv(a, b, ONE) \in Nat /\ a <= MulDiv(a, b, ONE)
<1> DEFINE q == MulDiv(a, b, ONE)
<1>1. q \in Nat /\ a * b < q * ONE + ONE
  <2>1. a * b \in Nat
    OBVIOUS
  <2> QED BY <2>1, Scale, FloorIsRead DEF MulDiv
<1>2. a * ONE <= a * b
  BY Scale, ProductsAreOrdered
<1> HIDE DEF q
<1>3. a * ONE < (q + 1) * ONE
  <2>1. (q + 1) * ONE = q * ONE + ONE /\ q * ONE \in Int /\ a * ONE \in Int /\ a * b \in Int
    BY <1>1, Scale
  <2> QED BY <1>1, <1>2, <2>1, Scale
<1>4. a < q + 1
  BY <1>1, <1>3, Scale, FactorCancels
<1> QED BY <1>1, <1>4 DEF q

LEMMA MulDivByOne ==
  ASSUME NEW a \in Nat
  PROVE  MulDiv(a, ONE, ONE) = a
<1> DEFINE q == MulDiv(a, ONE, ONE)
<1>1. q \in Nat /\ q * ONE <= a * ONE /\ a <= q
  BY Scale, MulDivIsNat, MulDivGrows
<1> HIDE DEF q
<1>2. q <= a
  BY <1>1, Scale, FactorCancels
<1> QED BY <1>1, <1>2 DEF q

\* The loop of compound_rate, turn by turn.
IsLoop(f, rate, n) ==
    f = [k \in 0..n |-> IF k = 0 THEN [exponent |-> n, result |-> ONE, base |-> rate]
                                 ELSE squaring_turn[f[k - 1]]]

LEMMA LoopExists ==
  ASSUME NEW rate, NEW n \in Nat
  PROVE  \E f : IsLoop(f, rate, n)
<1> DEFINE first == [exponent |-> n, result |-> ONE, base |-> rate]
           Term(f, k) == IF k = 0 THEN first ELSE squaring_turn[f[k - 1]]
           Solves(f, m) == f = [k \in 0..m |-> Term(f, k)]
           bad == {m \in Nat : ~\E f : Solves(f, m)}
<1>1. bad = {}
  <2> SUFFICES ASSUME bad # {} PROVE FALSE
    OBVIOUS
  <2>1. PICK m \in bad : \A j \in bad : m <= j
    BY LeastNatural
  <2>2. m \in Nat /\ ~\E f : Solves(f, m)
    OBVIOUS
  <2>3. m # 0
    <3> SUFFICES ASSUME m = 0 PROVE FALSE
      OBVIOUS
    <3> DEFINE g == [k \in 0..0 |-> first]
    <3>1. \A k \in 0..0 : Term(g, k) = first
      OBVIOUS
    <3>2. Solves(g, 0)
      <4> HIDE DEF Term
      <4> QED BY <3>1
    <3> QED BY <2>2, <3>2
  <2>4. PICK f : Solves(f, m - 1)
    <3>1. m - 1 \in Nat /\ ~(m <= m - 1)
      BY <2>2, <2>3
    <3> QED BY <2>1, <3>1
  <2> DEFINE g == [k \in 0..m |-> IF k = m THEN squaring_turn[f[m - 1]] ELSE f[k]]
  <2>5. ASSUME NEW k \in 0..m PROVE g[k] = Term(g, k)
    <3>1. CASE k = m
      <4>1. g[k - 1] = f[m - 1]
        BY <2>2, <2>3, <3>1
      <4> QED BY <2>3, <3>1, <4>1
    <3>2. CASE k # m
      <4>1. k \in 0..(m - 1)
        BY <2>2, <3>2
      <4>2. f[k] = Term(f, k)
        <5> HIDE DEF Term
        <5> QED BY <2>4, <4>1
      <4>3. k # 0 => g[k - 1] = f[k - 1]
        BY <2>2, <4>1
      <4> QED BY <3>2, <4>2, <4>3
    <3> QED BY <3>1, <3>2
  <2>6. g = [k \in 0..m |-> g[k]]
    OBVIOUS
  <2>7. Solves(g, m)
    <3> HIDE DEF g, Term
    <3> QED BY <2>5, <2>6
  <2> QED BY <2>2, <2>7
<1>2. \E f : Solves(f, n)
  BY <1>1
<1> QED BY <1>2 DEF IsLoop

LEMMA LoopIsRead ==
  ASSUME NEW rate, NEW n \in Nat
  PROVE  \E f : /\ IsLoop(f, rate, n)
                /\ f[0] = [exponent |-> n, result |-> ONE, base |-> rate]
                /\ \A k \in 1..n : f[k] = squaring_turn[f[k - 1]]
                /\ compound_rate(rate, n) = f[n].result
<1> DEFINE f == CHOOSE g : IsLoop(g, rate, n)
<1>1. IsLoop(f, rate, n)
  BY LoopExists
<1>2. compound_rate(rate, n) = f[n].result
  BY DEF compound_rate, IsLoop, ONE
<1> HIDE DEF f
<1> DEFINE Term(k) == IF k = 0 THEN [exponent |-> n, result |-> ONE, base |-> rate]
                               ELSE squaring_turn[f[k - 1]]
<1>3. f = [k \in 0..n |-> Term(k)]
  BY <1>1 DEF IsLoop
<1>4. ASSUME NEW k \in 0..n PROVE f[k] = Term(k)
  <2> HIDE DEF Term
  <2> QED BY <1>3
<1>5. f[0] = [exponent |-> n, result |-> ONE, base |-> rate]
  BY <1>4
<1>6. ASSUME NEW k \in 1..n PROVE f[k] = squaring_turn[f[k - 1]]
  <2>1. k \in 0..n /\ k # 0
    OBVIOUS
  <2> QED BY <1>4, <2>1
<1> QED BY <1>1, <1>2, <1>5, <1>6

\* A turn keeps numbers numbers, and factors of at least 1.0 such.
LEMMA TurnKeeps ==
  ASSUME NEW s \in Turn
  PROVE  /\ squaring_turn[s] \in Turn
         /\ (ONE <= s.result /\ ONE <= s.base) =>
               ONE <= squaring_turn[s].result /\ ONE <= squaring_turn[s].base
<1> DEFINE square == MulDiv(s.base, s.base, ONE)
           product == MulDiv(s.result, s.base, ONE)
           half == s.exponent \div 2
           result == IF s.exponent % 2 = 1 THEN product ELSE s.result
<1>1. s.exponent \in Nat /\ s.result \in Nat /\ s.base \in Nat
  BY DEF Turn
<1>2. squaring_turn[s] = IF s.exponent = 0 THEN s
                         ELSE [exponent |-> half, result |-> result, base |-> square]
  BY DEF squaring_turn, Turn, ONE
<1>3. half \in Nat
  BY <1>1
<1>4. square \in Nat /\ product \in Nat
  BY <1>1, Scale, MulDivIsNat
<1>5. ONE <= s.result /\ ONE <= s.base => ONE <= square /\ ONE <= product
  <2> SUFFICES ASSUME ONE <= s.result, ONE <= s.base
               PROVE  ONE <= square /\ ONE <= product
    OBVIOUS
  <2>1. s.base <= square /\ s.result <= product
    BY <1>1, MulDivGrows
  <2> HIDE DEF square, product
  <2> QED BY <1>1, <1>4, <2>1, Scale
<1> HIDE DEF square, product, half
<1>6. [exponent |-> half, result |-> result, base |-> square] \in Turn
  BY <1>1, <1>3, <1>4 DEF Turn
<1> QED BY <1>2, <1>5, <1>6

LEMMA CompoundRate ==
  ASSUME NEW rate \in Nat, NEW n \in Nat
  PROVE  /\ compound_rate(rate, n) \in Nat
         /\ ONE <= rate => ONE <= compound_rate(rate, n)
         /\ n = 0 => compound_rate(rate, n) = ONE
<1>1. PICK f : /\ f[0] = [exponent |-> n, result |-> ONE, base |-> rate]
               /\ \A k \in 1..n : f[k] = squaring_turn[f[k - 1]]
               /\ compound_rate(rate, n) = f[n].result
  BY LoopIsRead
<1> DEFINE Good(s) == /\ s \in Turn
                      /\ ONE <= rate => ONE <= s.result /\ ONE <= s.base
           bad == {k \in 0..n : ~Good(f[k])}
<1>2. bad = {}
  <2> SUFFICES ASSUME bad # {} PROVE FALSE
    OBVIOUS
  <2>1. bad \subseteq Nat
    OBVIOUS
  <2>2. PICK k \in bad : \A j \in bad : k <= j
    BY <2>1, LeastNatural
  <2>3. k \in 0..n /\ ~Good(f[k])
    OBVIOUS
  <2>4. k # 0
    BY <1>1, <2>3, Scale DEF Turn
  <2>5. k \in 1..n /\ k - 1 \in 0..n /\ ~(k <= k - 1)
    BY <2>3, <2>4
  <2>6. Good(f[k - 1])
    BY <2>2, <2>5
  <2>7. Good(squaring_turn[f[k - 1]])
    BY <2>6, TurnKeeps
  <2> HIDE DEF Good
  <2> QED BY <1>1, <2>3, <2>5, <2>7
<1>3. Good(f[n])
  BY <1>2
<1> QED BY <1>1, <1>3, Scale DEF Turn

LEMMA Projection ==
  ASSUME NEW anchor \in Nat, NEW rate \in Nat, NEW last \in Int, NEW t \in Int
  PROVE  /\ project_forward(anchor, rate, last, t) \in Nat
         /\ ONE <= rate => anchor <= project_forward(anchor, rate, last, t)
         /\ last = t => project_forward(anchor, rate, last, t) = anchor
<1> DEFINE n == Least(elapsed_since(last, t), MAXIMUM_COMPOUNDING_WINDOW)
           c == compound_rate(rate, n)
<1>1. n \in Nat /\ (last = t => n = 0)
  BY Scale DEF Least, Greatest, elapsed_since
<1> HIDE DEF n
<1>2. c \in Nat /\ (ONE <= rate => ONE <= c) /\ (n = 0 => c = ONE)
  BY <1>1, CompoundRate
<1>3. project_forward(anchor, rate, last, t) = MulDiv(anchor, c, ONE)
  BY DEF project_forward, n, ONE
<1> HIDE DEF c
<1> QED BY <1>1, <1>2, <1>3, Scale, MulDivIsNat, MulDivGrows, MulDivByOne

\* A rate of 1.0 compounds to 1.0.
LEMMA NothingCompounds ==
  ASSUME NEW n \in Nat
  PROVE  compound_rate(ONE, n) = ONE
<1>1. PICK f : /\ f[0] = [exponent |-> n, result |-> ONE, base |-> ONE]
               /\ \A k \in 1..n : f[k] = squaring_turn[f[k - 1]]
               /\ compound_rate(ONE, n) = f[n].result
  BY LoopIsRead
<1> DEFINE Idle(s) == s \in Turn /\ s.result = ONE /\ s.base = ONE
           bad == {k \in 0..n : ~Idle(f[k])}
<1>2. ASSUME NEW s, Idle(s) PROVE Idle(squaring_turn[s])
  <2>1. squaring_turn[s] \in Turn
    BY <1>2, TurnKeeps
  <2>2. s.exponent \in Nat /\ MulDiv(ONE, ONE, ONE) = ONE
    BY <1>2, Scale, MulDivByOne DEF Turn
  <2>3. squaring_turn[s] = IF s.exponent = 0 THEN s
                           ELSE [exponent |-> s.exponent \div 2, result |-> ONE, base |-> ONE]
    BY <1>2, <2>2 DEF squaring_turn, Turn, ONE
  <2> QED BY <1>2, <2>1, <2>3
<1>3. bad = {}
  <2> SUFFICES ASSUME bad # {} PROVE FALSE
    OBVIOUS
  <2>1. bad \subseteq Nat
    OBVIOUS
  <2>2. PICK k \in bad : \A j \in bad : k <= j
    BY <2>1, LeastNatural
  <2>3. k \in 0..n /\ ~Idle(f[k])
    OBVIOUS
  <2>4. k # 0
    BY <1>1, <2>3, Scale DEF Turn
  <2>5. k \in 1..n /\ k - 1 \in 0..n /\ ~(k <= k - 1)
    BY <2>3, <2>4
  <2>6. Idle(f[k - 1])
    BY <2>2, <2>5
  <2>7. Idle(squaring_turn[f[k - 1]])
    BY <1>2, <2>6
  <2> HIDE DEF Idle
  <2> QED BY <1>1, <2>3, <2>5, <2>7
<1>4. Idle(f[n])
  BY <1>3
<1> QED BY <1>1, <1>4

\* Division that rounds toward zero keeps the sign, and less than nothing is at most -1.
LEMMA TruncatedDivIsRead ==
  ASSUME NEW a \in Int, NEW c \in Nat \ {0}
  PROVE  /\ TruncatedDiv(a, c) \in Int
         /\ a <= 0 => TruncatedDiv(a, c) <= 0
         /\ a >= 0 => TruncatedDiv(a, c) >= 0
<1>1. CASE a >= 0
  <2>1. a \div c \in Nat /\ (a = 0 => a \div c = 0)
    BY <1>1
  <2> QED BY <1>1, <2>1 DEF TruncatedDiv
<1>2. CASE ~(a >= 0)
  <2>1. -a \in Nat
    BY <1>2
  <2>2. (-a) \div c \in Nat
    BY <2>1, FloorIsRead
  <2> QED BY <1>2, <2>2 DEF TruncatedDiv
<1> QED BY <1>1, <1>2

LEMMA BoundedPrice ==
  ASSUME NEW p \in Nat
  PROVE  /\ price_in_band(bound_redemption_price(p)) /\ bound_redemption_price(p) \in Nat
         /\ price_in_band(p) => bound_redemption_price(p) = p
BY Scale DEF price_in_band, bound_redemption_price, Greatest, Least

\* The weight of the error in one step: how far the integral term is moved.
Weight(price, market_price, ki, t) ==
    TruncatedDiv(ki * (price - market_price) * t, ONE)

LEMMA ControllerTick ==
  ASSUME NEW price \in Nat, NEW market \in Nat, NEW integral \in Int,
         integral \in (-INTEGRAL_CLAMP)..INTEGRAL_CLAMP,
         NEW kp \in Nat, NEW ki \in Nat, NEW t \in Nat
  PROVE  LET r == run_controller_tick(price, market, integral, kp, ki, t)
         IN  /\ r.rate \in (ONE - RATE_DELTA_CLAMP)..(ONE + RATE_DELTA_CLAMP)
             /\ r.integral \in (-INTEGRAL_CLAMP)..INTEGRAL_CLAMP
             /\ price <= MINIMUM_REDEMPTION_PRICE => r.rate >= ONE
             /\ price >= MAXIMUM_REDEMPTION_PRICE => r.rate <= ONE
             /\ Weight(price, market, ki, t) < 0 => r.rate < ONE + RATE_DELTA_CLAMP
             /\ Weight(price, market, ki, t) > 0 => r.rate > ONE - RATE_DELTA_CLAMP
<1> DEFINE C == RATE_DELTA_CLAMP
           error == price - market
           proportional == TruncatedDiv(kp * error, ONE)
           delta == TruncatedDiv(ki * error * t, ONE)
           next == advance_integral(integral, delta)
           adjustment == clamp_to_magnitude(proportional + next, C)
           free == Greatest(ONE + adjustment, 1)
           r == run_controller_tick(price, market, integral, kp, ki, t)
<1>0. error \in Int
  OBVIOUS
<1> HIDE DEF error
<1>1. /\ proportional \in Int
      /\ error <= 0 => proportional <= 0
      /\ error >= 0 => proportional >= 0
  <2>1. kp * error \in Int /\ (error <= 0 => kp * error <= 0) /\ (error >= 0 => kp * error >= 0)
    BY <1>0
  <2> QED BY <2>1, Scale, TruncatedDivIsRead
<1>2. /\ delta \in Int
      /\ error <= 0 => delta <= 0
      /\ error >= 0 => delta >= 0
  <2>1. ki * error \in Int /\ (error <= 0 => ki * error <= 0) /\ (error >= 0 => ki * error >= 0)
    BY <1>0
  <2> DEFINE x == ki * error
  <2> HIDE DEF x
  <2>2. x * t \in Int /\ (x <= 0 => x * t <= 0) /\ (x >= 0 => x * t >= 0)
    BY <2>1 DEF x
  <2> QED BY <2>1, <2>2, Scale, TruncatedDivIsRead DEF x
<1>3. Weight(price, market, ki, t) = delta
  BY DEF Weight, error
<1>4. r.rate = rate_at_price(price, free) /\ r.integral = next
  BY DEF run_controller_tick, error, ONE
<1> HIDE DEF proportional, delta, r
<1>5. /\ next \in (-C)..C
      /\ delta < 0 => next <= C - 1
      /\ delta > 0 => next >= 1 - C
  BY <1>2, Scale DEF advance_integral, clamp_to_magnitude, Greatest, Least
<1> HIDE DEF next
<1>6. /\ adjustment \in (-C)..C
      /\ delta < 0 => adjustment <= C - 1
      /\ delta > 0 => adjustment >= 1 - C
  <2>1. proportional + next \in Int
    BY <1>1, <1>5
  <2>2. adjustment \in (-C)..C
    BY <2>1, Scale DEF clamp_to_magnitude, Greatest, Least
  <2>3. ASSUME delta < 0 PROVE adjustment <= C - 1
    <3>1. error < 0 /\ proportional + next <= C - 1
      BY <1>0, <1>1, <1>2, <1>5, <2>3, Scale
    <3> QED BY <2>1, <3>1, Scale DEF clamp_to_magnitude, Greatest, Least
  <2>4. ASSUME delta > 0 PROVE adjustment >= 1 - C
    <3>1. error > 0 /\ proportional + next >= 1 - C
      BY <1>0, <1>1, <1>2, <1>5, <2>4, Scale
    <3> QED BY <2>1, <3>1, Scale DEF clamp_to_magnitude, Greatest, Least
  <2> QED BY <2>2, <2>3, <2>4
<1> HIDE DEF adjustment
<1>7. /\ free \in (ONE - C)..(ONE + C)
      /\ delta < 0 => free < ONE + C
      /\ delta > 0 => free > ONE - C
  BY <1>2, <1>6, Scale DEF Greatest
<1> HIDE DEF free
<1>8. /\ rate_at_price(price, free) \in (ONE - C)..(ONE + C)
      /\ price <= MINIMUM_REDEMPTION_PRICE => rate_at_price(price, free) >= ONE
      /\ price >= MAXIMUM_REDEMPTION_PRICE => rate_at_price(price, free) <= ONE
      /\ delta < 0 => rate_at_price(price, free) < ONE + C
      /\ delta > 0 => rate_at_price(price, free) > ONE - C
  BY <1>2, <1>7, Scale DEF rate_at_price, Greatest, Least, ONE
<1> QED BY <1>3, <1>4, <1>5, <1>8, Scale DEF r

---------------------------------------------------------------------------
(* The redemption price                                                    *)

ControllerInv == ControllerTypeOK /\ AnchorIsBounded

\* What a re-anchoring handler stores.
Anchored(state) ==
    /\ state \in RedemptionPriceState
    /\ price_in_band(state.price)
    /\ state.rate \in (ONE - RATE_DELTA_CLAMP)..(ONE + RATE_DELTA_CLAMP)
    /\ state.integral \in (-INTEGRAL_CLAMP)..INTEGRAL_CLAMP
    /\ state.price = MINIMUM_REDEMPTION_PRICE => state.rate >= ONE
    /\ state.price = MAXIMUM_REDEMPTION_PRICE => state.rate <= ONE

LEMMA StateIsRead ==
  ASSUME ControllerInv, initialized
  PROVE  /\ params \in ProtocolParameters /\ redemption \in RedemptionPriceState
         /\ params.kp \in Nat /\ params.ki \in Nat
         /\ now \in Nat /\ redemption.price \in Nat /\ redemption.rate \in Nat
         /\ redemption.integral \in Int /\ redemption.last_updated_at \in Nat
         /\ redemption.last_updated_at <= now
         /\ redemption.integral \in (-INTEGRAL_CLAMP)..INTEGRAL_CLAMP
         /\ CurrentRedemptionPrice \in Nat /\ AnchoredPrice \in Nat
         /\ price_in_band(AnchoredPrice)
<1>1. /\ params \in ProtocolParameters /\ redemption \in RedemptionPriceState
      /\ now \in Nat /\ redemption.last_updated_at <= now
      /\ redemption.integral \in (-INTEGRAL_CLAMP)..INTEGRAL_CLAMP
  BY BandAssumption DEF ControllerInv, ControllerTypeOK, AnchorIsBounded
<1>2. /\ redemption.price \in Nat /\ redemption.rate \in Nat
      /\ redemption.integral \in Int /\ redemption.last_updated_at \in Nat
  BY <1>1 DEF RedemptionPriceState
<1>3. params.kp \in Nat /\ params.ki \in Nat
  BY <1>1, BandAssumption DEF ProtocolParameters
<1>4. CurrentRedemptionPrice \in Nat
  <2>1. redemption.last_updated_at \in Int /\ now \in Int
    BY <1>1, <1>2
  <2>2. project_forward(redemption.price, redemption.rate, redemption.last_updated_at, now) \in Nat
    BY <1>2, <2>1, Projection, Zenon
  <2> QED BY <2>2 DEF CurrentRedemptionPrice
<1>5. AnchoredPrice \in Nat /\ price_in_band(AnchoredPrice)
  BY <1>4, BoundedPrice DEF AnchoredPrice
<1> QED BY <1>1, <1>2, <1>3, <1>4, <1>5

MarketPrice == oracle_price_to_fixed_point(Oracle.price)
WeightNow == Weight(AnchoredPrice, MarketPrice, params.ki, now - redemption.last_updated_at)

\* A step that stores the price of this instant, with a rate that answers the market.
Reanchors ==
    /\ initialized
    /\ Anchored(redemption')
    /\ redemption'.price = AnchoredPrice
    /\ redemption'.last_updated_at = now
    /\ OracleReads =>
         /\ WeightNow < 0 => redemption'.rate < ONE + RATE_DELTA_CLAMP
         /\ WeightNow > 0 => redemption'.rate > ONE - RATE_DELTA_CLAMP
    /\ UNCHANGED <<now, oracles, initialized, params>>

\* A step of an administrator that leaves the stability fee.
SetsParameters ==
    /\ initialized
    /\ params' \in ProtocolParameters
    /\ params'.stability_fee = params.stability_fee
    /\ UNCHANGED <<now, oracles, initialized, redemption>>

LEMMA AdvanceReanchors ==
  ASSUME ControllerInv, initialized, OracleReads, AdvanceRedemptionPrice,
         UNCHANGED <<now, oracles, initialized, params>>
  PROVE  Reanchors
<1> DEFINE t == elapsed_since(redemption.last_updated_at, now)
           tick == run_controller_tick(AnchoredPrice, MarketPrice, redemption.integral,
                                       params.kp, params.ki, t)
<1>1. /\ redemption.last_updated_at \in Nat /\ now \in Nat /\ redemption.last_updated_at <= now
      /\ AnchoredPrice \in Nat /\ price_in_band(AnchoredPrice)
      /\ redemption.integral \in Int /\ params.kp \in Nat /\ params.ki \in Nat
      /\ redemption.integral \in (-INTEGRAL_CLAMP)..INTEGRAL_CLAMP
      /\ params \in ProtocolParameters
  BY StateIsRead
<1>2. t \in Nat /\ t = now - redemption.last_updated_at
  BY <1>1 DEF elapsed_since, Greatest
<1>3. MarketPrice \in Nat
  <2>1. params.market_price_oracle \in OracleId
    BY <1>1 DEF ProtocolParameters
  <2>2. Oracle \in OraclePriceAccount
    BY <2>1 DEF OracleReads, Oracle, ControllerInv, ControllerTypeOK
  <2>3. Oracle.price \in Nat
    BY <2>2 DEF OraclePriceAccount
  <2> QED BY <2>3, Scale, MulDivIsNat DEF MarketPrice, oracle_price_to_fixed_point, ONE
<1>4. redemption' = [price |-> AnchoredPrice, rate |-> tick.rate, integral |-> tick.integral,
                     last_updated_at |-> now]
  BY DEF AdvanceRedemptionPrice, AdvancedRedemption, MarketPrice
<1> HIDE DEF t
<1>5. /\ tick.rate \in (ONE - RATE_DELTA_CLAMP)..(ONE + RATE_DELTA_CLAMP)
      /\ tick.integral \in (-INTEGRAL_CLAMP)..INTEGRAL_CLAMP
      /\ AnchoredPrice <= MINIMUM_REDEMPTION_PRICE => tick.rate >= ONE
      /\ AnchoredPrice >= MAXIMUM_REDEMPTION_PRICE => tick.rate <= ONE
      /\ Weight(AnchoredPrice, MarketPrice, params.ki, t) < 0 => tick.rate < ONE + RATE_DELTA_CLAMP
      /\ Weight(AnchoredPrice, MarketPrice, params.ki, t) > 0 => tick.rate > ONE - RATE_DELTA_CLAMP
  BY <1>1, <1>2, <1>3, ControllerTick
<1> HIDE DEF tick
<1>6. tick.rate \in Nat /\ tick.integral \in Int
  BY <1>5, Scale
<1>7. redemption' \in RedemptionPriceState
  BY <1>1, <1>4, <1>6 DEF RedemptionPriceState
<1>8. Anchored(redemption')
  BY <1>1, <1>4, <1>5, <1>7, Scale DEF Anchored
<1> QED BY <1>2, <1>4, <1>5, <1>8 DEF Reanchors, WeightNow

LEMMA ResetReanchors ==
  ASSUME ControllerInv, NEW a, ResetRedemptionRateController(a)
  PROVE  Reanchors
<1>1. /\ initialized /\ now \in Nat /\ AnchoredPrice \in Nat /\ price_in_band(AnchoredPrice)
  BY StateIsRead DEF ResetRedemptionRateController
<1>2. redemption' = [price |-> AnchoredPrice, rate |-> ONE, integral |-> 0,
                     last_updated_at |-> now]
  BY DEF ResetRedemptionRateController, ONE
<1>3. redemption' \in RedemptionPriceState
  BY <1>1, <1>2, Scale DEF RedemptionPriceState
<1>4. Anchored(redemption')
  BY <1>1, <1>2, <1>3, Scale DEF Anchored
<1>5. redemption'.rate = ONE
  BY <1>2
<1> QED BY <1>1, <1>2, <1>4, <1>5, Scale DEF Reanchors, ResetRedemptionRateController

LEMMA SettersSetParameters ==
  ASSUME ControllerInv, NEW a \in Account, Administration(a)
  PROVE  SetsParameters \/ Reanchors
<1>0. ASSUME initialized PROVE params \in ProtocolParameters
  BY <1>0, StateIsRead
<1>1. CASE \E kp \in GainInput, ki \in GainInput : SetControllerGains(a, kp, ki)
  BY <1>0, <1>1
     DEF SetControllerGains, CanSetControllerGains, UpdateParameters, IsAdmin, gains_in_band,
         SetsParameters, ProtocolParameters
<1>2. CASE \E interval \in TimingInput, age \in TimingInput : SetTimingParameters(a, interval, age)
  BY <1>0, <1>2
     DEF SetTimingParameters, CanSetTimingParameters, UpdateParameters, IsAdmin,
         timing_in_band, SetsParameters, ProtocolParameters
<1>3. CASE \E ratio \in RatioInput : SetMinimumCollateralizationRatio(a, ratio)
  BY <1>0, <1>3
     DEF SetMinimumCollateralizationRatio, CanSetMinimumCollateralizationRatio,
         UpdateParameters, IsAdmin, SetsParameters, ProtocolParameters
<1>4. CASE \E b \in Account : SetAdmin(a, b) \/ SetFreezeAuthority(a, b)
  BY <1>0, <1>4
     DEF SetAdmin, SetFreezeAuthority, UpdateParameters, IsAdmin, SetsParameters,
         ProtocolParameters
<1>5. CASE \E o \in OracleId : SetMarketPriceOracle(a, o)
  BY <1>0, <1>5
     DEF SetMarketPriceOracle, UpdateParameters, IsAdmin, SetsParameters, ProtocolParameters
<1>6. CASE \E frozen \in BOOLEAN : SetFrozen(a, frozen)
  BY <1>0, <1>6 DEF SetFrozen, IsFreezeAuthority, SetsParameters, ProtocolParameters
<1>7. CASE ResetRedemptionRateController(a)
  BY <1>7, ResetReanchors
<1> QED BY <1>1, <1>2, <1>3, <1>4, <1>5, <1>6, <1>7 DEF Administration

LEMMA ControllerSteps ==
  ASSUME ControllerInv, ControllerNext
  PROVE  \/ \E a \in Account : InitializeGlobals(a)
         \/ Reanchors \/ SetsParameters \/ Environment \/ UNCHANGED controllerVars
<1>1. CASE UpdateRedemptionRate
  BY <1>1, AdvanceReanchors DEF UpdateRedemptionRate, CanUpdateRedemptionRate
<1>2. CASE RefreshRedemption
  BY <1>2, AdvanceReanchors
     DEF RefreshRedemption, RefreshedRedemption, AdvanceRedemptionPrice, controllerVars
<1> QED BY <1>1, <1>2, SettersSetParameters DEF ControllerNext

---------------------------------------------------------------------------
(* The controller's invariant                                              *)

LEMMA InitControllerInv == ControllerInit => ControllerInv
<1> SUFFICES ASSUME ControllerInit PROVE ControllerInv
  OBVIOUS
<1>1. oracles \in [OracleId -> OraclePriceAccount \union {ABSENT}]
  BY DEF ControllerInit
<1>2. now \in 0..MAX_TIME /\ initialized = FALSE /\ params = ABSENT /\ redemption = ABSENT
  BY BandAssumption DEF ControllerInit
<1> QED BY <1>1, <1>2 DEF ControllerInv, ControllerTypeOK, AnchorIsBounded

\* The global accounts are made once.
LEMMA InitializedOnce ==
  ASSUME NEW a, InitializeGlobals(a)
  PROVE  ~initialized
<1>1. PICK guard \in Account, o \in OracleId, fee \in FeeInput, ratio \in RatioInput,
           kp \in GainInput, ki \in GainInput, interval \in TimingInput, age \in TimingInput,
           price \in PriceInput : ~initialized
  BY SMT DEF InitializeGlobals, CanInitializeWith
<1> QED BY <1>1

LEMMA InitializeAnchors ==
  ASSUME ControllerInv, NEW a \in Account, InitializeGlobals(a)
  PROVE  /\ ControllerInv' /\ ~initialized /\ initialized'
         /\ UNCHANGED <<now, oracles>>
<1>1. PICK guard \in Account, o \in OracleId, fee \in FeeInput, ratio \in RatioInput,
           kp \in GainInput, ki \in GainInput, interval \in TimingInput, age \in TimingInput,
           price \in PriceInput :
        /\ CanInitializeWith(o)
        /\ fee_in_band(fee) /\ ratio_in_band(ratio) /\ gains_in_band(kp, ki)
        /\ timing_in_band(interval) /\ timing_in_band(age)
        /\ price_in_band(price)
        /\ params' = [admin |-> a, freeze_authority |-> guard, market_price_oracle |-> o,
                      stability_fee |-> fee, minimum_collateralization_ratio |-> ratio,
                      kp |-> kp, ki |-> ki, minimum_between_updates |-> interval,
                      maximum_oracle_age |-> age, is_frozen |-> FALSE]
        /\ redemption' = [price |-> price, rate |-> FIXED_POINT_ONE, integral |-> 0,
                          last_updated_at |-> now]
  BY Zenon DEF InitializeGlobals
<1>2. /\ ~initialized /\ initialized' = TRUE /\ UNCHANGED <<now, oracles>> /\ now \in Nat
      /\ now \in 0..MAX_TIME /\ oracles \in [OracleId -> OraclePriceAccount \union {ABSENT}]
  BY <1>1, BandAssumption
     DEF InitializeGlobals, CanInitializeWith, ControllerInv, ControllerTypeOK
<1>3. params' \in ProtocolParameters
  BY <1>1 DEF ProtocolParameters, gains_in_band, timing_in_band
<1>4. redemption' \in RedemptionPriceState
  BY <1>1, <1>2, InputAssumption, ScaleAssumption DEF RedemptionPriceState
<1>5. ControllerTypeOK'
  BY <1>2, <1>3, <1>4 DEF ControllerTypeOK
<1>6. AnchorIsBounded'
  BY <1>1, <1>2, Scale DEF AnchorIsBounded, price_in_band, ONE
<1> QED BY <1>2, <1>5, <1>6 DEF ControllerInv

LEMMA EnvironmentKeepsInv ==
  ASSUME ControllerInv, Environment
  PROVE  ControllerInv' /\ UNCHANGED globals /\ (now' # now \/ UNCHANGED <<now, globals>>)
<1>1. CASE Tick
  <2>1. /\ now \in Nat /\ now' \in 0..MAX_TIME /\ now < now' /\ UNCHANGED <<oracles, globals>>
    BY <1>1, BandAssumption DEF Tick, ControllerInv, ControllerTypeOK
  <2>2. ControllerTypeOK'
    BY <2>1 DEF ControllerInv, ControllerTypeOK, globals
  <2>3. AnchorIsBounded'
    <3>1. initialized => redemption.last_updated_at \in Nat /\ redemption.last_updated_at <= now
      BY StateIsRead
    <3>2. initialized => redemption.last_updated_at <= now'
      BY <2>1, <3>1
    <3> QED BY <2>1, <3>2 DEF ControllerInv, AnchorIsBounded, globals, price_in_band
  <2> QED BY <2>1, <2>2, <2>3 DEF ControllerInv
<1>2. CASE \E o \in LiveOracle : \E account \in OracleReports : OracleWrites(o, account)
  <2>1. PICK o \in LiveOracle, account \in OracleReports : OracleWrites(o, account)
    BY <1>2
  <2>2. account \in OraclePriceAccount
    <3>1. now \in Nat /\ OraclePrice \subseteq Nat
      BY InputAssumption, BandAssumption DEF ControllerInv, ControllerTypeOK
    <3>2. CASE account \in [price : OraclePrice, timestamp : {now}, quotes_the_pair : {TRUE}]
      BY <3>1, <3>2 DEF OraclePriceAccount
    <3>3. CASE account \in [price : {1}, timestamp : {now}, quotes_the_pair : {FALSE}]
      <4>1. {1} \subseteq Nat /\ {now} \subseteq Nat /\ {FALSE} \subseteq BOOLEAN
        BY <3>1
      <4> QED BY <3>3, <4>1 DEF OraclePriceAccount
    <3> QED BY <2>1, <3>2, <3>3 DEF OracleReports
  <2>3. oracles' \in [OracleId -> OraclePriceAccount \union {ABSENT}]
        /\ UNCHANGED <<now, globals>>
    BY <2>1, <2>2, InputAssumption DEF OracleWrites, ControllerInv, ControllerTypeOK
  <2> QED BY <2>3 DEF ControllerInv, ControllerTypeOK, AnchorIsBounded, globals, price_in_band
<1> QED BY <1>1, <1>2 DEF Environment

LEMMA ReanchorKeepsInv ==
  ASSUME ControllerInv, Reanchors
  PROVE  ControllerInv'
<1>1. /\ initialized /\ Anchored(redemption') /\ redemption'.last_updated_at = now
      /\ UNCHANGED <<now, oracles, initialized, params>> /\ now \in Nat
  BY StateIsRead DEF Reanchors
<1>2. ControllerTypeOK'
  BY <1>1 DEF Anchored, ControllerInv, ControllerTypeOK
<1>3. AnchorIsBounded'
  BY <1>1, Scale DEF Anchored, AnchorIsBounded, price_in_band, ONE
<1> QED BY <1>2, <1>3 DEF ControllerInv

LEMMA ParametersKeepInv ==
  ASSUME ControllerInv, initialized, params' \in ProtocolParameters,
         UNCHANGED <<now, oracles, initialized, redemption>>
  PROVE  ControllerInv'
BY DEF ControllerInv, ControllerTypeOK, AnchorIsBounded, price_in_band

LEMMA NextKeepsControllerInv ==
  ASSUME ControllerInv, [ControllerNext]_controllerVars
  PROVE  ControllerInv'
<1>1. CASE UNCHANGED controllerVars
  BY <1>1 DEF controllerVars, ControllerInv, ControllerTypeOK, AnchorIsBounded, price_in_band
<1>2. CASE ControllerNext
  BY <1>1, <1>2, ControllerSteps, InitializeAnchors, ReanchorKeepsInv, ParametersKeepInv,
     EnvironmentKeepsInv DEF SetsParameters
<1> QED BY <1>1, <1>2

\* What the controller's guarantees rest on, in every reachable state.
THEOREM ControllerIsSound == ControllerSpec => []ControllerInv
<1>1. ControllerInv /\ [ControllerNext]_controllerVars => ControllerInv'
  BY NextKeepsControllerInv
<1> QED BY <1>1, InitControllerInv, PTL DEF ControllerSpec

\* Whatever oracles report, gains are set and gaps pass, the stored price, rate and
\* integral stay in their bands, and no price at the edge is driven outward
\* (advance_redemption_price, run_controller_tick).
THEOREM AnchorStaysBounded == ControllerSpec => []AnchorIsBounded
<1>1. ControllerInv => AnchorIsBounded
  BY DEF ControllerInv
<1> QED BY <1>1, ControllerIsSound, PTL

\* Where the step leaves the price a reader computes.
LEMMA PriceStays ==
  ASSUME ControllerInv, initialized, now' = now, ControllerNext
  PROVE  /\ AnchoredPrice' = AnchoredPrice
         /\ AnchoredPrice = CurrentRedemptionPrice
              => CurrentRedemptionPrice' = CurrentRedemptionPrice
<1>1. CASE UNCHANGED redemption
  <2>1. CurrentRedemptionPrice' = CurrentRedemptionPrice
    BY <1>1 DEF CurrentRedemptionPrice
  <2> QED BY <2>1 DEF AnchoredPrice
<1>2. CASE Reanchors
  <2>1. /\ redemption'.price = AnchoredPrice /\ redemption'.last_updated_at = now
        /\ redemption' \in RedemptionPriceState /\ now \in Nat /\ now \in Int
        /\ AnchoredPrice \in Nat /\ price_in_band(AnchoredPrice)
    BY <1>2, StateIsRead DEF Reanchors, Anchored
  <2>2. redemption'.rate \in Nat
    BY <2>1 DEF RedemptionPriceState
  <2>3. project_forward(AnchoredPrice, redemption'.rate, now, now) = AnchoredPrice
    BY <2>1, <2>2, Projection
  <2>4. CurrentRedemptionPrice' = AnchoredPrice
    BY <2>1, <2>3 DEF CurrentRedemptionPrice
  <2> QED BY <2>1, <2>4, BoundedPrice DEF AnchoredPrice
<1> QED BY <1>1, <1>2, ControllerSteps, EnvironmentKeepsInv, InitializedOnce
        DEF InitializeGlobals, SetsParameters, controllerVars, globals

\* No update, reset or new parameter moves the redemption price of the present instant
\* (advance_redemption_price, reset_redemption_rate_controller).
THEOREM PriceStandsStill == ControllerSpec => PriceNeverJumps
<1>1. ControllerInv /\ [ControllerNext]_controllerVars =>
        [initialized /\ now' = now => AnchoredPrice' = AnchoredPrice]_controllerVars
  BY PriceStays
<1> QED BY <1>1, ControllerIsSound, PTL DEF ControllerSpec, PriceNeverJumps

\* However long the error had one sign, the first update that sees the other with enough
\* weight takes the rate off its clamp (INTEGRAL_CLAMP, run_controller_tick).
THEOREM RateDoesNotWindUp == ControllerSpec => NoWindup
<1> DEFINE Follows ==
      initialized /\ initialized' /\ redemption'.last_updated_at > redemption.last_updated_at
         /\ OracleReads /\ UsablePrice /\ IntervalDue =>
         LET error == AnchoredPrice - oracle_price_to_fixed_point(Oracle.price)
             weight == TruncatedDiv(params.ki * error * (now - redemption.last_updated_at),
                                    FIXED_POINT_ONE)
         IN  /\ weight < 0 => redemption'.rate < FIXED_POINT_ONE + RATE_DELTA_CLAMP
             /\ weight > 0 => redemption'.rate > FIXED_POINT_ONE - RATE_DELTA_CLAMP
<1>1. ASSUME ControllerInv, ControllerNext PROVE Follows
  <2> SUFFICES ASSUME initialized, redemption'.last_updated_at > redemption.last_updated_at,
                      OracleReads
               PROVE  /\ WeightNow < 0 => redemption'.rate < ONE + RATE_DELTA_CLAMP
                      /\ WeightNow > 0 => redemption'.rate > ONE - RATE_DELTA_CLAMP
    BY DEF WeightNow, Weight, MarketPrice, ONE
  <2>1. redemption.last_updated_at \in Nat
    BY <1>1, StateIsRead
  <2>2. redemption' # redemption
    BY <2>1
  <2>3. Reanchors
    BY <1>1, <2>2, ControllerSteps, EnvironmentKeepsInv, InitializedOnce
       DEF InitializeGlobals, SetsParameters, controllerVars, globals
  <2> QED BY <2>3 DEF Reanchors
<1>2. ControllerInv /\ [ControllerNext]_controllerVars => [Follows]_controllerVars
  BY <1>1
<1> QED BY <1>2, ControllerIsSound, PTL DEF ControllerSpec, NoWindup

---------------------------------------------------------------------------
(* Debt and collateral                                                     *)

debts(ps) == [p \in PositionId |-> ps[p].normalized_debt]

NothingBeforeInitialization ==
    ~initialized => /\ coins = 0 /\ surplus = 0
                    /\ \A p \in PositionId : positions[p].status = "unopened"

\* A vault never holds less than the position's record says.
VaultsHoldTheRecord == \A p \in PositionId : positions[p].collateral <= vaults[p]

BankInv ==
    /\ TypeOK
    /\ ControllerInv
    /\ DebtCoversSupply
    /\ NothingBeforeInitialization
    /\ VaultsHoldTheRecord

Rate == CurrentAccumulatedRate
Total == accumulator.total_normalized_debt

LEMMA BankIsRead ==
  ASSUME BankInv, initialized
  PROVE  /\ accumulator.rate \in Nat /\ ONE <= accumulator.rate
         /\ accumulator.last_accrued_at \in Nat /\ accumulator.last_accrued_at <= now
         /\ Total \in Nat /\ now \in Nat
         /\ params.stability_fee \in Nat /\ ONE <= params.stability_fee
         /\ Rate \in Nat /\ accumulator.rate <= Rate /\ ONE <= Rate
         /\ AccruedFee \in Nat /\ AccruedFee * ONE <= Total * (Rate - accumulator.rate)
<1>1. /\ accumulator \in StabilityFeeAccumulator /\ ONE <= accumulator.rate
      /\ accumulator.last_accrued_at <= now
  BY Scale DEF BankInv, TypeOK, ONE, StabilityFeeAccumulator
<1>2. /\ accumulator.rate \in Nat /\ accumulator.last_accrued_at \in Nat /\ Total \in Nat
      /\ now \in Nat
  BY <1>1, StateIsRead DEF StabilityFeeAccumulator, Total, BankInv
<1>3. params.stability_fee \in Nat /\ ONE <= params.stability_fee
  <2>1. params \in ProtocolParameters
    BY StateIsRead DEF BankInv
  <2>2. params.stability_fee \in FeeInput /\ fee_in_band(params.stability_fee)
    BY <2>1 DEF ProtocolParameters
  <2> QED BY <2>2, InputAssumption, BandAssumption, Scale DEF fee_in_band, ONE
<1>4. Rate \in Nat /\ accumulator.rate <= Rate
  <2>1. accumulator.last_accrued_at \in Int /\ now \in Int
    BY <1>2
  <2>2. /\ project_forward(accumulator.rate, params.stability_fee,
                           accumulator.last_accrued_at, now) \in Nat
        /\ accumulator.rate <= project_forward(accumulator.rate, params.stability_fee,
                                               accumulator.last_accrued_at, now)
    BY <1>2, <1>3, <2>1, Projection, Zenon
  <2> QED BY <2>2 DEF Rate, CurrentAccumulatedRate
<1>5. ONE <= Rate
  BY <1>1, <1>2, <1>4, Scale
<1>6. Rate - accumulator.rate \in Nat
  BY <1>2, <1>4
<1>7. AccruedFee \in Nat /\ AccruedFee * ONE <= Total * (Rate - accumulator.rate)
  BY <1>2, <1>6, Scale, MulDivIsNat DEF AccruedFee, Total, Rate, ONE
<1> QED BY <1>1, <1>2, <1>3, <1>4, <1>5, <1>7

\* An accrual with a loan, a repayment or neither: the debt left covers the coins left.
LEMMA AccrualIsOwed ==
  ASSUME BankInv, initialized, NEW d \in Int, NEW a \in Int,
         Total + d \in Nat, coins + a \in Nat, a * ONE <= d * Rate,
         AccrueFees(Total + d), coins' = coins + a, now' = now
  PROVE  /\ accumulator' \in StabilityFeeAccumulator
         /\ accumulator'.rate >= ONE /\ accumulator'.last_accrued_at <= now'
         /\ accumulator'.total_normalized_debt = Total + d
         /\ surplus' \in Nat /\ SupplyIsOwed'
<1> DEFINE r == accumulator.rate
           fee == AccruedFee
<1>1. /\ r \in Nat /\ Rate \in Nat /\ r <= Rate /\ ONE <= Rate /\ Total \in Nat /\ now \in Nat
      /\ fee \in Nat /\ fee * ONE <= Total * (Rate - r)
  BY BankIsRead
<1>2. coins \in Nat /\ surplus \in Nat /\ (coins + surplus) * ONE <= Total * r
  BY DEF BankInv, TypeOK, DebtCoversSupply, SupplyIsOwed, supply, Total, ONE
<1>3. /\ accumulator' = [rate |-> Rate, last_accrued_at |-> now,
                          total_normalized_debt |-> Total + d]
      /\ surplus' = surplus + fee
  BY DEF AccrueFees, MintSurplus, Rate
<1> HIDE DEF r, fee
<1>4. /\ accumulator'.rate = Rate /\ accumulator'.last_accrued_at = now
      /\ accumulator'.total_normalized_debt = Total + d
      /\ accumulator' \in StabilityFeeAccumulator
  BY <1>1, <1>3 DEF StabilityFeeAccumulator
<1>5. ((coins + a) + (surplus + fee)) * ONE <= (Total + d) * Rate
  <2>1. ((coins + a) + (surplus + fee)) * ONE = (coins + surplus) * ONE + a * ONE + fee * ONE
    BY <1>1, <1>2, Scale
  <2>2. (Total + d) * Rate = Total * r + Total * (Rate - r) + d * Rate
    <3>1. Total * Rate = Total * r + Total * (Rate - r)
      BY <1>1
    <3>2. (Total + d) * Rate = Total * Rate + d * Rate
      BY <1>1
    <3> QED BY <3>1, <3>2
  <2>3. /\ (coins + surplus) * ONE \in Int /\ a * ONE \in Int /\ fee * ONE \in Int
        /\ Total * r \in Int /\ Total * (Rate - r) \in Int /\ d * Rate \in Int
    BY <1>1, <1>2, Scale
  <2> DEFINE x1 == (coins + surplus) * ONE
             x2 == a * ONE
             x3 == fee * ONE
             y1 == Total * r
             y2 == d * Rate
             y3 == Total * (Rate - r)
  <2>4. x1 <= y1 /\ x2 <= y2 /\ x3 <= y3
    BY <1>1, <1>2
  <2>5. x1 \in Int /\ x2 \in Int /\ x3 \in Int /\ y1 \in Int /\ y2 \in Int /\ y3 \in Int
    BY <2>3
  <2>6. ((coins + a) + (surplus + fee)) * ONE = x1 + x2 + x3 /\ (Total + d) * Rate = y1 + y3 + y2
    BY <2>1, <2>2
  <2> HIDE DEF x1, x2, x3, y1, y2, y3
  <2>7. x1 + x2 + x3 <= y1 + y3 + y2
    BY <2>4, <2>5
  <2> QED BY <2>6, <2>7
<1>6. SupplyIsOwed'
  <2>1. supply' = (coins + a) + (surplus + fee)
    BY <1>3 DEF supply
  <2> QED BY <1>4, <1>5, <2>1 DEF SupplyIsOwed, ONE
<1> QED BY <1>1, <1>2, <1>3, <1>4, <1>6

LEMMA PositionIsRead ==
  ASSUME BankInv, NEW p \in PositionId
  PROVE  /\ positions \in [PositionId -> Position] /\ positions[p] \in Position
         /\ positions[p].collateral \in Nat /\ positions[p].normalized_debt \in Nat
         /\ vaults \in [PositionId -> Nat] /\ vaults[p] \in Nat
         /\ positions[p].collateral <= vaults[p]
         /\ positions[p].status # "open" =>
               positions[p].collateral = 0 /\ positions[p].normalized_debt = 0
<1>1. positions \in [PositionId -> Position] /\ vaults \in [PositionId -> Nat]
  BY DEF BankInv, TypeOK
<1>2. positions[p] \in Position
  BY <1>1
<1> QED BY <1>1, <1>2 DEF BankInv, TypeOK, VaultsHoldTheRecord, Position

\* One position and its vault rewritten.
LEMMA PositionIsSet ==
  ASSUME BankInv, NEW p \in PositionId, NEW q \in Position, NEW v \in Nat,
         positions' = [positions EXCEPT ![p] = q],
         vaults' = [vaults EXCEPT ![p] = v],
         q.status # "open" => q.collateral = 0 /\ q.normalized_debt = 0,
         q.collateral <= v
  PROVE  /\ positions' \in [PositionId -> Position] /\ positions'[p] = q
         /\ \A x \in PositionId \ {p} : positions'[x] = positions[x]
         /\ \A x \in PositionId : positions'[x].status # "open" =>
               positions'[x].collateral = 0 /\ positions'[x].normalized_debt = 0
         /\ vaults' \in [PositionId -> Nat] /\ VaultsHoldTheRecord'
<1>1. positions \in [PositionId -> Position] /\ vaults \in [PositionId -> Nat]
  BY DEF BankInv, TypeOK
<1>2. /\ positions' \in [PositionId -> Position] /\ positions'[p] = q
      /\ \A x \in PositionId \ {p} : positions'[x] = positions[x]
  BY <1>1
<1>3. /\ vaults' \in [PositionId -> Nat] /\ vaults'[p] = v
      /\ \A x \in PositionId \ {p} : vaults'[x] = vaults[x]
  BY <1>1
<1>4. ASSUME NEW x \in PositionId
      PROVE  /\ positions'[x].status # "open" =>
                   positions'[x].collateral = 0 /\ positions'[x].normalized_debt = 0
             /\ positions'[x].collateral <= vaults'[x]
  BY <1>2, <1>3, PositionIsRead
<1> QED BY <1>2, <1>3, <1>4 DEF VaultsHoldTheRecord

LEMMA DebtsAreSummed ==
  ASSUME BankInv, initialized
  PROVE  /\ Total = SumFunctionOnSet(debts(positions), PositionId)
         /\ \A x \in PositionId : debts(positions)[x] = positions[x].normalized_debt
         /\ \A x \in PositionId : debts(positions)[x] \in Int
<1>1. Total = SumFunctionOnSet(debts(positions), PositionId)
  BY DEF BankInv, DebtCoversSupply, DebtIsTheSumOfPositions, debts, Total
<1>2. \A x \in PositionId : debts(positions)[x] = positions[x].normalized_debt
  BY DEF debts
<1> QED BY <1>1, <1>2, PositionIsRead

\* The position q that p becomes is sound whenever p was.
NoWorse(p, q) ==
    \/ q.status # "open"
    \/ q.normalized_debt = 0
    \/ /\ positions[p].status = "open"
       /\ positions[p].collateral <= q.collateral
       /\ q.normalized_debt <= positions[p].normalized_debt
    \/ Collateralized(q.collateral, q.normalized_debt)

Becomes(p, q, v) ==
    /\ positions' = [positions EXCEPT ![p] = q]
    /\ vaults' = [vaults EXCEPT ![p] = v]
    /\ q.status # "open" => q.collateral = 0 /\ q.normalized_debt = 0
    /\ q.collateral <= v
    /\ NoWorse(p, q)

\* What is common to every transaction that moves collateral.
LEMMA CollateralMoves ==
  ASSUME BankInv, NEW p \in PositionId, CollateralNext(p)
  PROVE  /\ UNCHANGED <<now, oracles, globals, accumulator, coins, surplus>>
         /\ purse' \in Nat /\ initialized
         /\ \E q \in Position, v \in Nat :
               Becomes(p, q, v) /\ q.normalized_debt = positions[p].normalized_debt
<1> DEFINE c == positions[p].collateral
           d == positions[p].normalized_debt
           Kept(q, v) == Becomes(p, q, v) /\ q.normalized_debt = d
<1>0. /\ positions \in [PositionId -> Position] /\ positions[p] \in Position
      /\ c \in Nat /\ d \in Nat
      /\ vaults \in [PositionId -> Nat] /\ vaults[p] \in Nat /\ c <= vaults[p]
      /\ positions[p].status # "open" => c = 0 /\ d = 0
      /\ purse \in Nat /\ Amount \subseteq Nat
      /\ ~initialized => positions[p].status = "unopened"
  BY PositionIsRead, AmountAssumption DEF BankInv, TypeOK, NothingBeforeInitialization
<1>1. ASSUME NEW a \in Amount, OpenPosition(p, a)
      PROVE  /\ UNCHANGED <<now, oracles, globals, accumulator, coins, surplus>>
             /\ purse' \in Nat /\ initialized /\ \E q \in Position, v \in Nat : Kept(q, v)
  <2> DEFINE q == [status |-> "open", collateral |-> a, normalized_debt |-> 0]
  <2>1. positions' = [positions EXCEPT ![p] = q] /\ vaults' = [vaults EXCEPT ![p] = a]
        /\ d = 0 /\ a \in Nat /\ purse' \in Nat
    BY <1>0, <1>1 DEF OpenPosition, CanOpenPosition
  <2>2. q \in Position /\ q.status = "open" /\ q.collateral = a /\ q.normalized_debt = 0
    BY <2>1 DEF Position
  <2> HIDE DEF q
  <2>3. Kept(q, a)
    BY <2>1, <2>2 DEF Becomes, NoWorse
  <2> QED BY <1>1, <2>1, <2>2, <2>3 DEF OpenPosition, CanOpenPosition
<1>2. ASSUME NEW a \in Amount, DepositCollateral(p, a)
      PROVE  /\ UNCHANGED <<now, oracles, globals, accumulator, coins, surplus>>
             /\ purse' \in Nat /\ initialized /\ \E q \in Position, v \in Nat : Kept(q, v)
  <2> DEFINE v == vaults[p] + a
             q == [positions[p] EXCEPT !.collateral = v]
  <2>1. /\ positions' = [positions EXCEPT ![p] = q] /\ vaults' = [vaults EXCEPT ![p] = v]
        /\ a \in Nat /\ v \in Nat /\ purse' \in Nat /\ positions[p].status = "open"
    BY <1>0, <1>2 DEF DepositCollateral, CanDepositCollateral, CollateralAfterDeposit, IsOpen
  <2> HIDE DEF v
  <2>2. /\ q \in Position /\ q.status = "open" /\ q.collateral = v /\ q.normalized_debt = d
    BY <1>0, <2>1 DEF Position
  <2>3. c <= v
    BY <1>0, <2>1 DEF v
  <2> HIDE DEF q
  <2>4. Kept(q, v)
    BY <1>0, <2>1, <2>2, <2>3 DEF Becomes, NoWorse
  <2> QED BY <1>2, <2>1, <2>2, <2>4 DEF DepositCollateral, CanDepositCollateral, IsOpen
<1>3. ASSUME NEW a \in Amount, WithdrawCollateral(p, a)
      PROVE  /\ UNCHANGED <<now, oracles, globals, accumulator, coins, surplus>>
             /\ purse' \in Nat /\ initialized /\ \E q \in Position, v \in Nat : Kept(q, v)
  <2> DEFINE v == vaults[p] - a
             x == c - a
             q == [positions[p] EXCEPT !.collateral = x]
  <2>1. /\ positions' = [positions EXCEPT ![p] = q] /\ vaults' = [vaults EXCEPT ![p] = v]
        /\ a \in Nat /\ a <= c /\ purse' \in Nat /\ positions[p].status = "open"
        /\ a # 0 /\ d # 0 => Collateralized(x, d)
    BY <1>0, <1>3 DEF WithdrawCollateral, CanWithdrawCollateral, IsOpen
  <2>2. v \in Nat /\ x \in Nat /\ x <= v /\ (a = 0 => x = c)
    BY <1>0, <2>1
  <2> HIDE DEF v, x
  <2>3. q \in Position /\ q.status = "open" /\ q.collateral = x /\ q.normalized_debt = d
    BY <1>0, <2>1, <2>2 DEF Position
  <2> HIDE DEF q
  <2>4. NoWorse(p, q)
    BY <1>0, <2>1, <2>2, <2>3 DEF NoWorse
  <2>5. Kept(q, v)
    BY <2>1, <2>2, <2>3, <2>4 DEF Becomes
  <2> QED BY <1>3, <2>1, <2>2, <2>3, <2>5 DEF WithdrawCollateral, CanWithdrawCollateral, IsOpen
<1>4. ASSUME ClosePosition(p)
      PROVE  /\ UNCHANGED <<now, oracles, globals, accumulator, coins, surplus>>
             /\ purse' \in Nat /\ initialized /\ \E q \in Position, v \in Nat : Kept(q, v)
  <2> DEFINE q == [positions[p] EXCEPT !.status = "closed"]
  <2>1. /\ positions' = [positions EXCEPT ![p] = q] /\ vaults' = [vaults EXCEPT ![p] = vaults[p]]
        /\ c = 0 /\ d = 0 /\ purse' \in Nat
    BY <1>0, <1>4 DEF ClosePosition, CanClosePosition
  <2>2. q \in Position /\ q.status = "closed" /\ q.collateral = 0 /\ q.normalized_debt = 0
    BY <1>0, <2>1 DEF Position
  <2> HIDE DEF q
  <2>3. Kept(q, vaults[p])
    BY <1>0, <2>1, <2>2 DEF Becomes, NoWorse
  <2> QED BY <1>0, <1>4, <2>1, <2>2, <2>3 DEF ClosePosition, CanClosePosition, IsOpen
<1>5. ASSUME NEW a \in Amount, Donate(p, a)
      PROVE  /\ UNCHANGED <<now, oracles, globals, accumulator, coins, surplus>>
             /\ purse' \in Nat /\ initialized /\ \E q \in Position, v \in Nat : Kept(q, v)
  <2> DEFINE v == vaults[p] + a
  <2>1. /\ positions' = [positions EXCEPT ![p] = positions[p]] /\ vaults' = [vaults EXCEPT ![p] = v]
        /\ v \in Nat /\ c <= v /\ purse' \in Nat /\ initialized
    BY <1>0, <1>5 DEF Donate
  <2> HIDE DEF v
  <2>2. Kept(positions[p], v)
    BY <1>0, <2>1 DEF Becomes, NoWorse
  <2> QED BY <1>0, <1>5, <2>1, <2>2 DEF Donate
<1> QED BY <1>1, <1>2, <1>3, <1>4, <1>5 DEF CollateralNext

\* What is common to a loan and a repayment: d is the debt taken on, a the coins minted.
LEMMA DebtMoves ==
  ASSUME BankInv, NEW p \in PositionId, DebtNext(p)
  PROVE  /\ UNCHANGED <<now, oracles, globals, purse>> /\ initialized
         /\ \E d \in Int, a \in Int, q \in Position :
               /\ Becomes(p, q, vaults[p])
               /\ q.normalized_debt = positions[p].normalized_debt + d
               /\ Total + d \in Nat /\ AccrueFees(Total + d)
               /\ coins + a \in Nat /\ coins' = coins + a
               /\ a * ONE <= d * Rate
<1> DEFINE c == positions[p].collateral
           debt == positions[p].normalized_debt
           Moves(d, a, q) ==
               /\ Becomes(p, q, vaults[p])
               /\ q.normalized_debt = debt + d
               /\ Total + d \in Nat /\ AccrueFees(Total + d)
               /\ coins + a \in Nat /\ coins' = coins + a
               /\ a * ONE <= d * Rate
<1>0. /\ positions \in [PositionId -> Position] /\ positions[p] \in Position
      /\ c \in Nat /\ debt \in Nat /\ vaults \in [PositionId -> Nat] /\ vaults[p] \in Nat
      /\ c <= vaults[p] /\ coins \in Nat /\ Amount \subseteq Nat
  BY PositionIsRead, AmountAssumption DEF BankInv, TypeOK
<1>1. ASSUME NEW a \in Amount, GenerateDebt(p, a)
      PROVE  /\ UNCHANGED <<now, oracles, globals, purse>> /\ initialized
             /\ \E d \in Int, b \in Int, q \in Position : Moves(d, b, q)
  <2> DEFINE d == NormalizedLoan(a, Rate)
             q == [positions[p] EXCEPT !.normalized_debt = debt + d]
  <2>1. /\ initialized /\ positions[p].status = "open"
        /\ UNCHANGED <<now, oracles, globals, vaults, purse>>
    BY <1>1 DEF GenerateDebt, CanGenerateDebt, IsOpen
  <2>2. Rate \in Nat \ {0} /\ Total \in Nat /\ a \in Nat /\ a * ONE \in Nat
    BY <1>0, <2>1, BankIsRead, Scale
  <2>3. d \in Nat /\ a * ONE <= d * Rate
    BY <2>2, CeilIsRead DEF NormalizedLoan, MulDivCeil, ONE
  <2>4. /\ positions' = [positions EXCEPT ![p] = q]
        /\ Collateralized(c, debt + d)
        /\ AccrueFees(Total + d) /\ coins' = coins + a
    BY <1>1 DEF GenerateDebt, CanGenerateDebt, Rate, Total
  <2> HIDE DEF d
  <2>5. q \in Position /\ q.status = "open" /\ q.collateral = c /\ q.normalized_debt = debt + d
    <3>1. debt + d \in Nat
      BY <1>0, <2>3
    <3> QED BY <1>0, <2>1, <3>1 DEF Position
  <2> HIDE DEF q
  <2>6. vaults' = [vaults EXCEPT ![p] = vaults[p]]
    BY <1>0, <2>1
  <2>7. Becomes(p, q, vaults[p])
    BY <1>0, <2>4, <2>5, <2>6 DEF Becomes, NoWorse
  <2>8. Moves(d, a, q) /\ d \in Int /\ a \in Int
    BY <1>0, <2>2, <2>3, <2>4, <2>5, <2>7
  <2> QED BY <2>1, <2>5, <2>8
<1>2. ASSUME NEW a \in Amount, RepayDebt(p, a)
      PROVE  /\ UNCHANGED <<now, oracles, globals, purse>> /\ initialized
             /\ \E d \in Int, b \in Int, q \in Position : Moves(d, b, q)
  <2> DEFINE d == MulDiv(a, ONE, Rate)
             q == [positions[p] EXCEPT !.normalized_debt = debt - d]
  <2>1. /\ initialized /\ positions[p].status = "open"
        /\ UNCHANGED <<now, oracles, globals, vaults, purse>>
    BY <1>2 DEF RepayDebt, CanRepayDebt, IsOpen
  <2>2. Rate \in Nat \ {0} /\ Total \in Nat /\ a \in Nat
    BY <1>0, <2>1, BankIsRead, Scale
  <2>3. d \in Nat /\ d * Rate <= a * ONE
    BY <2>2, Scale, MulDivIsNat
  <2>4. /\ positions' = [positions EXCEPT ![p] = q]
        /\ a <= coins /\ d <= debt /\ d <= Total
        /\ AccrueFees(Total - d) /\ coins' = coins - a
    BY <1>2 DEF RepayDebt, CanRepayDebt, RepaidDebt, Rate, Total, ONE
  <2> HIDE DEF d
  <2>5. q \in Position /\ q.status = "open" /\ q.collateral = c /\ q.normalized_debt = debt - d
    <3>1. debt - d \in Nat
      BY <1>0, <2>3, <2>4
    <3> QED BY <1>0, <2>1, <3>1 DEF Position
  <2> HIDE DEF q
  <2>6. vaults' = [vaults EXCEPT ![p] = vaults[p]]
    BY <1>0, <2>1
  <2>7. Becomes(p, q, vaults[p])
    <3>1. c <= q.collateral /\ q.normalized_debt <= debt /\ q.collateral <= vaults[p]
      BY <1>0, <2>3, <2>4, <2>5
    <3>2. NoWorse(p, q)
      BY <2>1, <3>1 DEF NoWorse
    <3> QED BY <2>4, <2>5, <2>6, <3>1, <3>2 DEF Becomes
  <2>8. (-a) * ONE <= (-d) * Rate
    <3>1. (-a) * ONE = -(a * ONE) /\ (-d) * Rate = -(d * Rate)
          /\ a * ONE \in Int /\ d * Rate \in Int
      BY <2>2, <2>3, Scale
    <3> QED BY <2>3, <3>1
  <2>9. /\ Total + (-d) = Total - d /\ Total - d \in Nat
        /\ coins + (-a) = coins - a /\ coins - a \in Nat /\ debt + (-d) = debt - d
    BY <1>0, <2>2, <2>3, <2>4
  <2>10. Moves(-d, -a, q)
    BY <2>4, <2>5, <2>7, <2>8, <2>9
  <2>11. -d \in Int /\ -a \in Int
    BY <2>2, <2>3
  <2> QED BY <2>1, <2>5, <2>10, <2>11
<1> QED BY <1>1, <1>2 DEF DebtNext

---------------------------------------------------------------------------
(* The bank's invariant                                                    *)

LEMMA InitBankInv == Init => BankInv
<1> SUFFICES ASSUME Init PROVE BankInv
  OBVIOUS
<1>1. ControllerInv /\ initialized = FALSE
  BY InitControllerInv DEF Init, ControllerInit
<1>2. /\ positions = [p \in PositionId |->
                        [status |-> "unopened", collateral |-> 0, normalized_debt |-> 0]]
      /\ vaults = [p \in PositionId |-> 0]
      /\ purse \in Nat /\ coins = 0 /\ surplus = 0
  BY AmountAssumption DEF Init
<1>3. \A p \in PositionId : /\ positions[p] \in Position /\ positions[p].status = "unopened"
                            /\ positions[p].collateral = 0 /\ positions[p].normalized_debt = 0
                            /\ vaults[p] = 0
  BY <1>2 DEF Position
<1>4. positions \in [PositionId -> Position] /\ vaults \in [PositionId -> Nat]
  BY <1>2, <1>3
<1>5. TypeOK
  BY <1>1, <1>2, <1>3, <1>4 DEF TypeOK, ControllerInv
<1> QED BY <1>1, <1>2, <1>3, <1>5
        DEF BankInv, DebtCoversSupply, DebtIsTheSumOfPositions, SupplyIsOwed,
            NothingBeforeInitialization, VaultsHoldTheRecord

LEMMA SameGlobalsKeepControllerInv ==
  ASSUME ControllerInv, UNCHANGED <<now, oracles, globals>>
  PROVE  ControllerInv' /\ (initialized' <=> initialized)
<1>1. UNCHANGED controllerVars
  BY DEF controllerVars, globals
<1> QED BY <1>1, NextKeepsControllerInv DEF controllerVars

LEMMA CollateralKeepsInv ==
  ASSUME BankInv, NEW p \in PositionId, CollateralNext(p)
  PROVE  BankInv'
<1>1. /\ UNCHANGED <<now, oracles, globals, accumulator, coins, surplus>>
      /\ purse' \in Nat /\ initialized
  BY CollateralMoves
<1>2. PICK q \in Position, v \in Nat :
        Becomes(p, q, v) /\ q.normalized_debt = positions[p].normalized_debt
  BY CollateralMoves
<1>3. /\ positions' \in [PositionId -> Position] /\ positions'[p] = q
      /\ \A x \in PositionId \ {p} : positions'[x] = positions[x]
      /\ \A x \in PositionId : positions'[x].status # "open" =>
            positions'[x].collateral = 0 /\ positions'[x].normalized_debt = 0
      /\ vaults' \in [PositionId -> Nat] /\ VaultsHoldTheRecord'
  BY <1>2, PositionIsSet DEF Becomes
<1>4. ControllerInv' /\ initialized' = initialized
  BY <1>1, SameGlobalsKeepControllerInv DEF BankInv, globals
<1>5. TypeOK'
  BY <1>1, <1>3, <1>4 DEF BankInv, TypeOK, ControllerInv
<1>6. DebtIsTheSumOfPositions'
  <2>1. ASSUME NEW x \in PositionId PROVE debts(positions)[x] = debts(positions')[x]
    <3>1. positions'[x].normalized_debt = positions[x].normalized_debt
      BY <1>2, <1>3
    <3> QED BY <3>1 DEF debts
  <2>2. SumFunctionOnSet(debts(positions), PositionId)
          = SumFunctionOnSet(debts(positions'), PositionId)
    BY <2>1, PositionAssumption, SumOfEqualTerms
  <2>3. Total' = SumFunctionOnSet(debts(positions'), PositionId)
    BY <1>1, <2>2, DebtsAreSummed DEF Total
  <2> QED BY <2>3 DEF DebtIsTheSumOfPositions, debts, Total
<1>7. SupplyIsOwed'
  BY <1>1 DEF BankInv, DebtCoversSupply, SupplyIsOwed, supply
<1>8. NothingBeforeInitialization'
  BY <1>1, <1>4 DEF NothingBeforeInitialization
<1> QED BY <1>3, <1>4, <1>5, <1>6, <1>7, <1>8 DEF BankInv, DebtCoversSupply

LEMMA DebtKeepsInv ==
  ASSUME BankInv, NEW p \in PositionId, DebtNext(p)
  PROVE  BankInv'
<1>1. UNCHANGED <<now, oracles, globals, purse>> /\ initialized
  BY DebtMoves
<1>2. PICK d \in Int, a \in Int, q \in Position :
        /\ Becomes(p, q, vaults[p])
        /\ q.normalized_debt = positions[p].normalized_debt + d
        /\ Total + d \in Nat /\ AccrueFees(Total + d)
        /\ coins + a \in Nat /\ coins' = coins + a
        /\ a * ONE <= d * Rate
  BY DebtMoves
<1>3. vaults[p] \in Nat
  BY PositionIsRead
<1>4. /\ positions' \in [PositionId -> Position] /\ positions'[p] = q
      /\ \A x \in PositionId \ {p} : positions'[x] = positions[x]
      /\ \A x \in PositionId : positions'[x].status # "open" =>
            positions'[x].collateral = 0 /\ positions'[x].normalized_debt = 0
      /\ vaults' \in [PositionId -> Nat] /\ VaultsHoldTheRecord'
  BY <1>2, <1>3, PositionIsSet DEF Becomes
<1>5. /\ accumulator' \in StabilityFeeAccumulator
      /\ accumulator'.rate >= ONE /\ accumulator'.last_accrued_at <= now'
      /\ accumulator'.total_normalized_debt = Total + d
      /\ surplus' \in Nat /\ SupplyIsOwed'
  BY <1>1, <1>2, AccrualIsOwed
<1>6. ControllerInv' /\ initialized' = initialized
  BY <1>1, SameGlobalsKeepControllerInv DEF BankInv, globals
<1>7. purse' \in Nat /\ coins' \in Nat
  BY <1>1, <1>2 DEF BankInv, TypeOK
<1>8. TypeOK'
  BY <1>4, <1>5, <1>6, <1>7 DEF TypeOK, ControllerInv, ONE
<1>9. DebtIsTheSumOfPositions'
  <2> DEFINE f == debts(positions)
             g == debts(positions')
  <2>1. \A x \in PositionId : f[x] \in Int /\ f[x] = positions[x].normalized_debt
    BY <1>1, DebtsAreSummed
  <2>2. \A x \in PositionId : g[x] = positions'[x].normalized_debt
    BY DEF debts
  <2>3. g[p] = f[p] + d /\ f[p] \in Int
    BY <1>2, <1>4, <2>1, <2>2
  <2>4. \A x \in PositionId \ {p} : f[x] = g[x]
    BY <1>4, <2>1, <2>2
  <2> HIDE DEF f, g
  <2>5. \A x \in PositionId : f[x] \in Int /\ g[x] \in Int
    BY <1>2, <2>1, <2>3, <2>4
  <2>6. SumFunctionOnSet(g, PositionId) = SumFunctionOnSet(f, PositionId) + g[p] - f[p]
    BY <2>4, <2>5, PositionAssumption, SumChangesByTheTerm
  <2>7. SumFunctionOnSet(f, PositionId) = Total /\ Total \in Int
    BY <1>1, DebtsAreSummed, BankIsRead DEF f
  <2>8. Total' = SumFunctionOnSet(g, PositionId)
    BY <1>2, <1>5, <2>3, <2>6, <2>7 DEF Total
  <2> QED BY <2>8 DEF DebtIsTheSumOfPositions, debts, Total, g
<1>10. NothingBeforeInitialization'
  BY <1>1, <1>6 DEF NothingBeforeInitialization
<1> QED BY <1>4, <1>5, <1>6, <1>8, <1>9, <1>10 DEF BankInv, DebtCoversSupply

\* An accrual on its own, whatever the step does to the globals.
LEMMA AccrualKeepsInv ==
  ASSUME BankInv, initialized, AccrueFees(Total), ControllerInv', initialized', now' = now,
         UNCHANGED <<positions, vaults, purse, coins>>
  PROVE  BankInv'
<1>1. /\ Total \in Nat /\ coins \in Nat /\ 0 \in Int /\ Total + 0 = Total /\ coins + 0 = coins
      /\ 0 * ONE = 0 /\ 0 * Rate = 0 /\ 0 <= 0
  BY BankIsRead, Scale DEF BankInv, TypeOK
<1>2. /\ accumulator' \in StabilityFeeAccumulator
      /\ accumulator'.rate >= ONE /\ accumulator'.last_accrued_at <= now'
      /\ accumulator'.total_normalized_debt = Total + 0
      /\ surplus' \in Nat /\ SupplyIsOwed'
  <2>1. Total + 0 \in Nat /\ coins + 0 \in Nat /\ 0 * ONE <= 0 * Rate
        /\ AccrueFees(Total + 0) /\ coins' = coins + 0
    BY <1>1
  <2> QED BY <1>1, <2>1, AccrualIsOwed
<1>3. TypeOK'
  BY <1>2 DEF BankInv, TypeOK, ControllerInv, ONE
<1>4. DebtIsTheSumOfPositions'
  <2>1. Total' = SumFunctionOnSet(debts(positions), PositionId)
    BY <1>1, <1>2, DebtsAreSummed DEF Total
  <2> QED BY <2>1 DEF DebtIsTheSumOfPositions, debts, Total
<1> QED BY <1>2, <1>3, <1>4
        DEF BankInv, DebtCoversSupply, NothingBeforeInitialization, VaultsHoldTheRecord

LEMMA InitializeKeepsInv ==
  ASSUME BankInv, NEW a \in Account, Initialize(a)
  PROVE  BankInv'
<1>1. ControllerInv' /\ ~initialized /\ initialized' /\ now' = now /\ now \in Nat
  BY InitializeAnchors, BandAssumption
     DEF Initialize, BankInv, ControllerInv, ControllerTypeOK
<1>2. /\ accumulator' = [rate |-> ONE, last_accrued_at |-> now, total_normalized_debt |-> 0]
      /\ UNCHANGED <<positions, vaults, purse, coins, surplus>>
  BY DEF Initialize, ONE
<1>3. /\ accumulator'.rate = ONE /\ accumulator'.last_accrued_at = now
      /\ accumulator'.total_normalized_debt = 0
      /\ accumulator' \in StabilityFeeAccumulator
  BY <1>1, <1>2, Scale DEF StabilityFeeAccumulator
<1>4. TypeOK'
  BY <1>1, <1>2, <1>3, Scale DEF BankInv, TypeOK, ControllerInv, ONE
<1>5. DebtIsTheSumOfPositions'
  <2>1. ASSUME NEW x \in PositionId PROVE debts(positions)[x] = 0
    <3>1. positions[x].status = "unopened"
      BY <1>1 DEF BankInv, NothingBeforeInitialization
    <3>2. positions[x].normalized_debt = 0
      BY <3>1, PositionIsRead
    <3> QED BY <3>2 DEF debts
  <2>2. SumFunctionOnSet(debts(positions), PositionId) = 0
    BY <2>1, PositionAssumption, SumOfZeros
  <2> QED BY <1>2, <1>3, <2>2 DEF DebtIsTheSumOfPositions, debts
<1>6. SupplyIsOwed'
  <2>1. supply' = 0
    BY <1>1, <1>2 DEF supply, BankInv, NothingBeforeInitialization
  <2>2. 0 * ONE = 0 /\ 0 * ONE <= 0 * ONE
    BY Scale
  <2> QED BY <1>3, <2>1, <2>2 DEF SupplyIsOwed, ONE
<1> QED BY <1>1, <1>2, <1>4, <1>5, <1>6
        DEF BankInv, DebtCoversSupply, NothingBeforeInitialization, VaultsHoldTheRecord

\* Everything else leaves the bank alone.
LEMMA ControllerStepKeepsInv ==
  ASSUME BankInv, UNCHANGED bank, ControllerInv', initialized' <=> initialized, now <= now'
  PROVE  BankInv'
<1>1. UNCHANGED <<accumulator, positions, vaults, purse, coins, surplus>>
  BY DEF bank
<1>2. TypeOK'
  <2>1. ASSUME initialized PROVE accumulator.last_accrued_at <= now'
    <3>1. /\ accumulator.last_accrued_at \in Nat /\ accumulator.last_accrued_at <= now
          /\ now \in Nat
      BY <2>1, BankIsRead
    <3>2. now' \in Int
      BY BandAssumption DEF ControllerInv, ControllerTypeOK
    <3> QED BY <3>1, <3>2
  <2> QED BY <1>1, <2>1 DEF BankInv, TypeOK, ControllerInv
<1>3. DebtCoversSupply'
  BY <1>1 DEF BankInv, DebtCoversSupply, DebtIsTheSumOfPositions, SupplyIsOwed, supply
<1> QED BY <1>1, <1>2, <1>3 DEF BankInv, NothingBeforeInitialization, VaultsHoldTheRecord

\* What a step is to the fee: nothing, or an accrual at the old rate.
FeeStands == UNCHANGED <<accumulator, surplus>> /\ params'.stability_fee = params.stability_fee
FeeAccrues == \E total \in Nat : AccrueFees(total) /\ now' = now

\* What it is to the price of this instant: nothing.
PriceStands ==
    now' = now => /\ AnchoredPrice' = AnchoredPrice
                  /\ AnchoredPrice = CurrentRedemptionPrice =>
                        CurrentRedemptionPrice' = CurrentRedemptionPrice

LEMMA SamePriceStands ==
  ASSUME UNCHANGED redemption
  PROVE  PriceStands
<1>1. now' = now => CurrentRedemptionPrice' = CurrentRedemptionPrice
  BY DEF CurrentRedemptionPrice
<1> QED BY <1>1 DEF PriceStands, AnchoredPrice

\* The steps the positions have no part in.
GlobalsStep ==
    /\ BankInv'
    /\ initialized'
    /\ FeeStands \/ FeeAccrues
    /\ PriceStands
    /\ UNCHANGED <<positions, vaults>>

LEMMA ControllerStepIsGlobals ==
  ASSUME BankInv, initialized, ControllerNext, UNCHANGED bank
  PROVE  GlobalsStep
<1>1. ControllerInv /\ ControllerInv'
  BY NextKeepsControllerInv DEF BankInv
<1>2. /\ initialized' = initialized /\ params'.stability_fee = params.stability_fee
      /\ now' = now \/ Environment
  BY <1>1, ControllerSteps, EnvironmentKeepsInv, InitializedOnce
     DEF InitializeGlobals, Reanchors, SetsParameters, controllerVars, globals
<1>3. now <= now'
  <2>1. now \in Nat
    BY BankIsRead
  <2> QED BY <1>2, <2>1 DEF Environment, Tick, OracleWrites
<1>4. BankInv'
  BY <1>1, <1>2, <1>3, ControllerStepKeepsInv
<1>5. PriceStands
  BY <1>1, PriceStays DEF PriceStands
<1> QED BY <1>2, <1>4, <1>5 DEF GlobalsStep, FeeStands, bank

LEMMA GlobalsKeepInv ==
  ASSUME BankInv, initialized,
         \/ GlobalsNext
         \/ \E a \in Account, fee \in FeeInput : SetStabilityFee(a, fee)
         \/ \E a \in Account : Administration(a) /\ UNCHANGED bank
         \/ Environment /\ UNCHANGED bank
  PROVE  GlobalsStep
<1>1. ControllerInv /\ Total \in Nat
  BY BankIsRead DEF BankInv
<1>2. ASSUME AccrueFees(Total), ControllerInv', initialized', now' = now, PriceStands,
             UNCHANGED <<positions, vaults, purse, coins>>
      PROVE  GlobalsStep
  BY <1>1, <1>2, AccrualKeepsInv DEF GlobalsStep, FeeAccrues
<1>3. CASE AccrueStabilityFee
  <2>1. AccrueFees(Total) /\ UNCHANGED <<now, oracles, globals, positions, vaults, purse, coins>>
    BY <1>3 DEF AccrueStabilityFee, Total
  <2>2. ControllerInv' /\ initialized'
    BY <1>1, <2>1, SameGlobalsKeepControllerInv
  <2>3. PriceStands
    BY <2>1, SamePriceStands DEF globals
  <2> QED BY <1>2, <2>1, <2>2, <2>3
<1>4. CASE RefreshGlobals
  <2>1. AccrueFees(Total) /\ RefreshRedemption /\ UNCHANGED <<positions, vaults, purse, coins>>
    BY <1>4 DEF RefreshGlobals, Total
  <2>2. now' = now /\ initialized'
    BY <2>1 DEF RefreshRedemption
  <2>3. ControllerNext
    BY <2>1 DEF ControllerNext
  <2>4. ControllerInv' /\ PriceStands
    BY <1>1, <2>2, <2>3, NextKeepsControllerInv, PriceStays DEF PriceStands
  <2> QED BY <1>2, <2>1, <2>2, <2>4
<1>5. CASE \E a \in Account, fee \in FeeInput : SetStabilityFee(a, fee)
  <2>1. PICK fee \in FeeInput :
          /\ fee_in_band(fee) /\ params' = [params EXCEPT !.stability_fee = fee]
          /\ UNCHANGED <<now, oracles, initialized, redemption>>
          /\ AccrueFees(Total) /\ UNCHANGED <<positions, vaults, purse, coins>>
    BY <1>5 DEF SetStabilityFee, CanSetStabilityFee, UpdateParameters, Total
  <2>2. params \in ProtocolParameters
    BY <1>1, StateIsRead
  <2>3. params' \in ProtocolParameters
    BY <2>1, <2>2 DEF ProtocolParameters
  <2>4. ControllerInv'
    BY <1>1, <2>1, <2>3, ParametersKeepInv
  <2>5. PriceStands
    BY <2>1, SamePriceStands
  <2> QED BY <1>2, <2>1, <2>4, <2>5
<1>6. CASE UpdateRedemptionRate /\ UNCHANGED bank
  BY <1>6, ControllerStepIsGlobals DEF ControllerNext
<1>7. CASE \E a \in Account : Administration(a) /\ UNCHANGED bank
  BY <1>7, ControllerStepIsGlobals DEF ControllerNext
<1>8. CASE Environment /\ UNCHANGED bank
  BY <1>8, ControllerStepIsGlobals DEF ControllerNext
<1>9. ~\E a \in Account : Initialize(a)
  BY InitializedOnce DEF Initialize
<1> QED BY <1>3, <1>4, <1>5, <1>6, <1>7, <1>8, <1>9 DEF GlobalsNext

LEMMA NextKeepsBankInv ==
  ASSUME BankInv, [Next]_vars
  PROVE  BankInv'
<1>1. CASE UNCHANGED vars
  <2>1. UNCHANGED bank /\ UNCHANGED <<now, oracles, globals>>
    BY <1>1 DEF vars
  <2>2. ControllerInv' /\ (initialized' <=> initialized)
    BY <2>1, SameGlobalsKeepControllerInv DEF BankInv
  <2>3. now <= now'
    BY <2>1, BandAssumption DEF BankInv, ControllerInv, ControllerTypeOK
  <2> QED BY <2>1, <2>2, <2>3, ControllerStepKeepsInv
<1>2. CASE \E p \in PositionId : PositionNext(p)
  BY <1>2, CollateralKeepsInv, DebtKeepsInv DEF PositionNext
<1>3. CASE initialized /\ Next /\ ~\E p \in PositionId : PositionNext(p)
  BY <1>2, <1>3, GlobalsKeepInv DEF Next, GlobalsStep
<1>4. CASE ~initialized /\ Next
  <2>1. CASE \E a \in Account : Initialize(a)
    BY <2>1, InitializeKeepsInv
  <2>2. CASE Environment /\ UNCHANGED bank
    <3>1. ControllerInv' /\ initialized' = initialized
      BY <2>2, EnvironmentKeepsInv DEF BankInv, globals
    <3>2. now <= now'
      <4>1. now \in Nat
        BY BandAssumption DEF BankInv, ControllerInv, ControllerTypeOK
      <4> QED BY <2>2, <4>1 DEF Environment, Tick, OracleWrites
    <3> QED BY <2>2, <3>1, <3>2, ControllerStepKeepsInv
  <2>3. /\ ~(GlobalsNext /\ ~\E a \in Account : Initialize(a))
        /\ ~\E a \in Account, fee \in FeeInput : SetStabilityFee(a, fee)
        /\ ~\E a \in Account : Administration(a)
    BY <1>4 DEF GlobalsNext, AccrueStabilityFee, RefreshGlobals, RefreshRedemption,
       CanAccrueStabilityFee, UpdateRedemptionRate, CanUpdateRedemptionRate, SetStabilityFee,
       UpdateParameters, IsAdmin, IsFreezeAuthority, Administration,
       SetControllerGains, SetTimingParameters, SetMinimumCollateralizationRatio, SetAdmin,
       SetFreezeAuthority, SetMarketPriceOracle, SetFrozen, ResetRedemptionRateController
  <2> QED BY <1>2, <1>4, <2>1, <2>2, <2>3 DEF Next
<1> QED BY <1>1, <1>2, <1>3, <1>4

\* What the books' invariants need, in every reachable state.
THEOREM BankIsSound == Spec => []BankInv
<1>1. BankInv /\ [Next]_vars => BankInv'
  BY NextKeepsBankInv
<1> QED BY <1>1, InitBankInv, PTL DEF Spec

---------------------------------------------------------------------------
(* Theorems                                                                *)

\* Parameters stay inside their bands, accounts and balances hold data of their types, the
\* accumulator never falls below 1.0, and only an open position has anything on record.
THEOREM TypeCorrect == Spec => []TypeOK
<1>1. BankInv => TypeOK
  BY DEF BankInv
<1> QED BY <1>1, BankIsSound, PTL

\* Every coin, fees minted to the protocol included, is owed by some position, and the global
\* total is what the positions owe (generate_debt, repay_debt, accrue_fees).
THEOREM DebtAlwaysCoversSupply == Spec => []DebtCoversSupply
<1>1. BankInv => DebtCoversSupply
  BY DEF BankInv
<1> QED BY <1>1, BankIsSound, PTL

\* A step is an accrual, or leaves the fee alone.
LEMMA FeeSteps ==
  ASSUME BankInv, initialized, Next
  PROVE  FeeStands \/ FeeAccrues
<1>1. ASSUME NEW p \in PositionId, CollateralNext(p) PROVE FeeStands
  <2>1. UNCHANGED <<now, oracles, globals, accumulator, coins, surplus>>
    BY <1>1, CollateralMoves
  <2> QED BY <2>1 DEF FeeStands, globals
<1>2. ASSUME NEW p \in PositionId, DebtNext(p) PROVE FeeAccrues
  <2>1. now' = now /\ \E d \in Int : Total + d \in Nat /\ AccrueFees(Total + d)
    BY <1>2, DebtMoves
  <2> QED BY <2>1 DEF FeeAccrues
<1> QED BY <1>1, <1>2, GlobalsKeepInv DEF Next, PositionNext, GlobalsStep

\* Whatever moves the accumulator mints exactly the fee borrowers were charged in that step,
\* once (accrue_fees and surplus_mint_call in all six callers).
THEOREM FeesAreMinted == Spec => AccrualMintsTheFee
<1> DEFINE Minted == initialized =>
         surplus' - surplus = MulDiv(accumulator.total_normalized_debt,
                                     accumulator'.rate - accumulator.rate,
                                     FIXED_POINT_ONE)
<1>1. ASSUME BankInv, [Next]_vars, initialized
      PROVE  surplus' - surplus = MulDiv(Total, accumulator'.rate - accumulator.rate, ONE)
  <2>1. /\ accumulator.rate \in Nat /\ Rate \in Nat /\ Total \in Nat /\ AccruedFee \in Nat
        /\ surplus \in Nat
    BY <1>1, BankIsRead DEF BankInv, TypeOK
  <2>2. CASE FeeAccrues
    <3>1. accumulator'.rate = Rate /\ surplus' = surplus + AccruedFee
      BY <2>2 DEF FeeAccrues, AccrueFees, MintSurplus, Rate
    <3>2. AccruedFee = MulDiv(Total, Rate - accumulator.rate, ONE)
      BY DEF AccruedFee, Rate, Total, ONE
    <3> QED BY <2>1, <3>1, <3>2
  <2>3. CASE UNCHANGED <<accumulator, surplus>>
    <3>1. MulDiv(Total, accumulator.rate - accumulator.rate, ONE) = 0
      <4>1. Total * (accumulator.rate - accumulator.rate) = 0
        BY <2>1
      <4>2. 0 \div ONE = 0
        BY Scale
      <4> QED BY <4>1, <4>2 DEF MulDiv
    <3> QED BY <2>1, <2>3, <3>1
  <2> QED BY <1>1, <2>2, <2>3, FeeSteps DEF FeeStands, vars, bank
<1>2. BankInv /\ [Next]_vars => [Minted]_vars
  BY <1>1 DEF Total, ONE
<1> QED BY <1>2, BankIsSound, PTL DEF Spec, AccrualMintsTheFee

LEMMA DebtStays ==
  ASSUME BankInv, initialized, Next, now' = now
  PROVE  CurrentAccumulatedRate' = CurrentAccumulatedRate
<1>1. CASE FeeStands
  BY <1>1 DEF FeeStands, CurrentAccumulatedRate
<1>2. CASE FeeAccrues
  <2>1. accumulator'.rate = Rate /\ accumulator'.last_accrued_at = now
    BY <1>2 DEF FeeAccrues, AccrueFees, Rate
  <2>2. Rate \in Nat /\ now \in Int
    BY BankIsRead
  <2>3. params'.stability_fee \in Nat
    <3>1. BankInv' /\ initialized'
      BY NextKeepsBankInv, FeeSteps, <1>2, GlobalsKeepInv, CollateralMoves, DebtMoves
         DEF Next, PositionNext, GlobalsStep, globals
    <3>2. params' \in ProtocolParameters
      BY <3>1 DEF BankInv, TypeOK, ControllerTypeOK
    <3> QED BY <3>2, InputAssumption DEF ProtocolParameters
  <2>4. project_forward(Rate, params'.stability_fee, now, now) = Rate
    BY <2>2, <2>3, Projection
  <2> QED BY <2>1, <2>4 DEF CurrentAccumulatedRate, Rate
<1> QED BY <1>1, <1>2, FeeSteps

\* Accruing early, late or twice, and changing the fee, leave what every debt is worth at that
\* instant (set_stability_fee_per_millisecond, accrue_stability_fee).
THEOREM DebtStandsStill == Spec => DebtNeverJumps
<1>1. BankInv /\ [Next]_vars =>
        [initialized /\ now' = now => CurrentAccumulatedRate' = CurrentAccumulatedRate]_vars
  BY DebtStays
<1> QED BY <1>1, BankIsSound, PTL DEF Spec, DebtNeverJumps

---------------------------------------------------------------------------
(* Sound positions                                                         *)

\* More collateral, less debt and a lower ratio never make a position unsound.
LEMMA CollateralizationIsMonotone ==
  ASSUME NEW c \in Nat, NEW d \in Nat, NEW c2 \in Nat, NEW d2 \in Nat,
         NEW r \in Nat, NEW price \in Nat, NEW ratio \in Nat, NEW ratio2 \in Nat,
         c <= c2, d2 <= d, ratio2 <= ratio,
         is_collateralized(c, d, r, price, ratio)
  PROVE  is_collateralized(c2, d2, r, price, ratio2)
<1>1. c * ONE * ONE * ONE >= d * r * price * ratio
  BY DEF is_collateralized, ONE
<1>2. c * ONE * ONE * ONE <= c2 * ONE * ONE * ONE
  <2>1. c * ONE \in Nat /\ c2 * ONE \in Nat /\ c * ONE <= c2 * ONE
    BY Scale, ProductsAreOrdered
  <2>2. c * ONE * ONE \in Nat /\ c2 * ONE * ONE \in Nat /\ c * ONE * ONE <= c2 * ONE * ONE
    BY <2>1, Scale, ProductsAreOrdered
  <2> QED BY <2>2, Scale, ProductsAreOrdered
<1>3. d2 * r * price * ratio2 <= d * r * price * ratio
  <2>1. d2 * r \in Nat /\ d * r \in Nat /\ d2 * r <= d * r
    BY ProductsAreOrdered
  <2>2. d2 * r * price \in Nat /\ d * r * price \in Nat /\ d2 * r * price <= d * r * price
    BY <2>1, ProductsAreOrdered
  <2> QED BY <2>2, ProductsAreOrdered
<1>4. /\ c * ONE * ONE * ONE \in Int /\ c2 * ONE * ONE * ONE \in Int
      /\ d2 * r * price * ratio2 \in Int /\ d * r * price * ratio \in Int
  <2>1. c * ONE \in Nat /\ c2 * ONE \in Nat /\ d * r \in Nat /\ d2 * r \in Nat
    BY Scale
  <2>2. /\ c * ONE * ONE \in Nat /\ c2 * ONE * ONE \in Nat
        /\ d * r * price \in Nat /\ d2 * r * price \in Nat
    BY <2>1, Scale
  <2> QED BY <2>2, Scale
<1> DEFINE x1 == c * ONE * ONE * ONE
           x2 == c2 * ONE * ONE * ONE
           y1 == d * r * price * ratio
           y2 == d2 * r * price * ratio2
<1>5. x1 >= y1 /\ x1 <= x2 /\ y2 <= y1 /\ x1 \in Int /\ x2 \in Int /\ y1 \in Int /\ y2 \in Int
  BY <1>1, <1>2, <1>3, <1>4
<1> HIDE DEF x1, x2, y1, y2
<1>6. x2 >= y2
  BY <1>5
<1> QED BY <1>6 DEF is_collateralized, ONE, x2, y2

LEMMA NoDebtIsSound ==
  ASSUME NEW c \in Nat, NEW r \in Nat, NEW price \in Nat, NEW ratio \in Nat
  PROVE  is_collateralized(c, 0, r, price, ratio)
<1>1. c * ONE \in Nat
  BY Scale
<1>2. c * ONE * ONE \in Nat
  BY <1>1, Scale
<1>3. c * ONE * ONE * ONE \in Nat
  BY <1>2, Scale
<1>4. 0 * r * price * ratio = 0
  BY ProductIsNat
<1> QED BY <1>3, <1>4 DEF is_collateralized, ONE

\* What a step makes of a position, judged at the rate and price of that instant.
LEMMA PositionSteps ==
  ASSUME BankInv, initialized, Next, NEW p \in PositionId
  PROVE  /\ initialized' /\ BankInv' /\ PriceStands
         /\ positions'[p] = positions[p] \/ NoWorse(p, positions'[p])
<1>0. positions \in [PositionId -> Position] /\ BankInv'
  BY NextKeepsBankInv DEF BankInv, TypeOK
<1>1. ASSUME NEW x \in PositionId, NEW q, positions' = [positions EXCEPT ![x] = q], NoWorse(x, q)
      PROVE  positions'[p] = positions[p] \/ NoWorse(p, positions'[p])
  BY <1>0, <1>1
<1>2. ASSUME NEW x \in PositionId, CollateralNext(x)
      PROVE  /\ initialized' /\ PriceStands
             /\ positions'[p] = positions[p] \/ NoWorse(p, positions'[p])
  <2>1. UNCHANGED globals /\ \E q \in Position, v \in Nat : Becomes(x, q, v)
    BY <1>2, CollateralMoves
  <2>2. UNCHANGED redemption /\ initialized'
    BY <2>1 DEF globals
  <2> QED BY <1>1, <2>1, <2>2, SamePriceStands DEF Becomes
<1>3. ASSUME NEW x \in PositionId, DebtNext(x)
      PROVE  /\ initialized' /\ PriceStands
             /\ positions'[p] = positions[p] \/ NoWorse(p, positions'[p])
  <2>1. UNCHANGED globals /\ \E q \in Position : Becomes(x, q, vaults[x])
    BY <1>3, DebtMoves
  <2>2. UNCHANGED redemption /\ initialized'
    BY <2>1 DEF globals
  <2> QED BY <1>1, <2>1, <2>2, SamePriceStands DEF Becomes
<1> QED BY <1>0, <1>2, <1>3, GlobalsKeepInv DEF Next, PositionNext, GlobalsStep

\* No transaction at this instant, its owner's, another's or a keeper's, takes a position that
\* meets the ratio below it, the admin's raising the ratio aside (withdraw_collateral,
\* generate_debt, advance_redemption_price).
THEOREM PositionsStaySound == Spec => SoundPositionsStaySound
<1> DEFINE Stays(p) ==
         /\ initialized /\ now' = now
         /\ AnchoredPrice = CurrentRedemptionPrice
         /\ params'.minimum_collateralization_ratio <= params.minimum_collateralization_ratio
         /\ Sound(p)
         => Sound(p)'
<1>1. ASSUME BankInv, Next, NEW p \in PositionId PROVE Stays(p)
  <2> SUFFICES ASSUME initialized, now' = now, AnchoredPrice = CurrentRedemptionPrice,
                      params'.minimum_collateralization_ratio
                        <= params.minimum_collateralization_ratio,
                      Sound(p), positions'[p].status = "open"
               PROVE  is_collateralized(positions'[p].collateral, positions'[p].normalized_debt,
                                        CurrentAccumulatedRate', CurrentRedemptionPrice',
                                        params'.minimum_collateralization_ratio)
    BY DEF Sound, Collateralized
  <2> DEFINE price == CurrentRedemptionPrice
             ratio == params.minimum_collateralization_ratio
             ratio2 == params'.minimum_collateralization_ratio
             q == positions'[p]
  <2>1. initialized' /\ BankInv' /\ (q = positions[p] \/ NoWorse(p, q))
        /\ CurrentRedemptionPrice' = price
    BY <1>1, PositionSteps DEF PriceStands
  <2>2. CurrentAccumulatedRate' = Rate
    BY <1>1, DebtStays DEF Rate
  <2>3. Rate \in Nat /\ price \in Nat /\ ratio \in Nat
    <3>1. params \in ProtocolParameters /\ price \in Nat
      BY <1>1, StateIsRead DEF BankInv
    <3>2. ratio \in Nat
      BY <3>1, InputAssumption DEF ProtocolParameters
    <3> QED BY <1>1, <3>1, <3>2, BankIsRead
  <2>4. ratio2 \in Nat /\ ratio2 <= ratio
    <3>1. params' \in ProtocolParameters
      BY <2>1 DEF BankInv, TypeOK, ControllerTypeOK
    <3> QED BY <3>1, InputAssumption DEF ProtocolParameters
  <2>5. /\ positions[p].collateral \in Nat /\ positions[p].normalized_debt \in Nat
        /\ q.collateral \in Nat /\ q.normalized_debt \in Nat
    <3>1. q \in Position
      BY <2>1 DEF BankInv, TypeOK
    <3> QED BY <1>1, <3>1, PositionIsRead DEF Position
  <2>6. CASE q.normalized_debt = 0
    BY <2>1, <2>2, <2>3, <2>4, <2>5, <2>6, NoDebtIsSound
  <2>7. CASE Collateralized(q.collateral, q.normalized_debt)
    <3>1. is_collateralized(q.collateral, q.normalized_debt, Rate, price, ratio)
      BY <2>7 DEF Collateralized, Rate
    <3>2. is_collateralized(q.collateral, q.normalized_debt, Rate, price, ratio2)
      <4>1. q.collateral <= q.collateral /\ q.normalized_debt <= q.normalized_debt
        BY <2>5
      <4> HIDE DEF q, price, ratio, ratio2
      <4> QED BY <2>3, <2>4, <2>5, <3>1, <4>1, CollateralizationIsMonotone
    <3> QED BY <2>1, <2>2, <3>2
  <2>8. CASE /\ positions[p].status = "open"
             /\ positions[p].collateral <= q.collateral
             /\ q.normalized_debt <= positions[p].normalized_debt
    <3>1. is_collateralized(positions[p].collateral, positions[p].normalized_debt,
                            Rate, price, ratio)
      BY <2>8 DEF Sound, Collateralized, Rate
    <3>2. is_collateralized(q.collateral, q.normalized_debt, Rate, price, ratio2)
      <4> HIDE DEF q, price, ratio, ratio2
      <4> QED BY <2>3, <2>4, <2>5, <2>8, <3>1, CollateralizationIsMonotone
    <3> QED BY <2>1, <2>2, <3>2
  <2>9. CASE q = positions[p]
    BY <2>5, <2>8, <2>9
  <2> QED BY <2>1, <2>6, <2>7, <2>8, <2>9 DEF NoWorse
<1>2. BankInv /\ [Next]_vars => [\A p \in PositionId : Stays(p)]_vars
  BY <1>1
<1> QED BY <1>2, BankIsSound, PTL DEF Spec, SoundPositionsStaySound
---------------------------------------------------------------------------
(* What the off-chain module plans of the redemption price and of the      *)
(* parameters                                                              *)

\* The gates of an update, as the poke, the combined poke and the quote each test them.
RateGates == IntervalDue /\ OracleReads /\ UsablePrice

LEMMA GatesAreThePokes == CanUpdateRedemptionRate <=> initialized /\ RateGates
BY DEF CanUpdateRedemptionRate, RateGates, IntervalDue, UsablePrice

\* An update is dated, and its gates ask for a gap of at least a millisecond.
LEMMA AnUpdateShows ==
  ASSUME ControllerInv, initialized, RateGates
  PROVE  AdvancedRedemption # redemption
<1>1. /\ now \in Nat /\ redemption.last_updated_at \in Nat
      /\ redemption.last_updated_at <= now /\ params \in ProtocolParameters
  BY StateIsRead
<1>2. params.minimum_between_updates \in Nat /\ params.minimum_between_updates >= 1
  BY <1>1, BandAssumption DEF ProtocolParameters
<1>3. redemption.last_updated_at # now
  BY <1>1, <1>2 DEF RateGates, IntervalDue, elapsed_since, Greatest
<1>4. AdvancedRedemption.last_updated_at = now
  BY DEF AdvancedRedemption
<1> QED BY <1>3, <1>4

LEMMA RefreshMovesWhenDue ==
  ASSUME ControllerInv, initialized
  PROVE  RefreshedRedemption # redemption <=> RateGates
BY AnUpdateShows DEF RefreshedRedemption, RateGates

\* The quote's list of errors is empty exactly when no gate is closed.
LEMMA QuoteIsReady ==
  ASSUME ControllerInv, initialized
  PROVE  QuoteErrors = {} <=> RateGates
<1> DEFINE usable == Oracle # ABSENT /\ Oracle.quotes_the_pair
           stale == elapsed_since(Oracle.timestamp, now) > params.maximum_oracle_age
           soon == elapsed_since(redemption.last_updated_at, now)
                     < params.minimum_between_updates
           open == usable /\ ~stale /\ Oracle.price # 0 /\ ~soon
<1>1. /\ now \in Nat /\ redemption.last_updated_at \in Nat
      /\ params.maximum_oracle_age \in Nat /\ params.minimum_between_updates \in Nat
      /\ params.market_price_oracle \in OracleId
  <2>1. now \in Nat /\ redemption.last_updated_at \in Nat /\ params \in ProtocolParameters
    BY StateIsRead
  <2> QED BY <2>1, BandAssumption DEF ProtocolParameters
<1>2. usable => Oracle.price \in Nat /\ Oracle.timestamp \in Nat
  BY <1>1 DEF Oracle, ControllerInv, ControllerTypeOK, OraclePriceAccount
<1>3. RateGates <=> open
  <2>1. ~soon <=> IntervalDue
    BY <1>1 DEF IntervalDue, elapsed_since, Greatest
  <2>2. usable <=> OracleReads
    BY DEF OracleReads, Oracle
  <2>3. usable => (~stale /\ Oracle.price # 0 <=> UsablePrice)
    BY <1>1, <1>2 DEF UsablePrice, elapsed_since, Greatest
  <2> QED BY <2>1, <2>2, <2>3 DEF RateGates
<1>4. \A o \in usable_market_price_oracle : o = Oracle
  BY DEF usable_market_price_oracle
<1>5. usable_market_price_oracle # {} <=> usable
  BY DEF usable_market_price_oracle
<1> DEFINE when(condition, code) == IF condition THEN {code} ELSE {}
           e1 == when(usable_market_price_oracle = {}, "oracle_unavailable")
           e2 == when(\E o \in usable_market_price_oracle :
                        elapsed_since(o.timestamp, now) > params.maximum_oracle_age,
                      "oracle_stale")
           e3 == when(\E o \in usable_market_price_oracle : o.price = 0, "oracle_price_zero")
           e4 == when(soon, "rate_update_too_soon")
<1>6. QuoteErrors = UNION {e1, e2, e3, e4}
  BY DEF QuoteErrors
<1>7. /\ e1 = {} <=> usable
      /\ e2 = {} <=> ~(usable /\ stale)
      /\ e3 = {} <=> ~(usable /\ Oracle.price = 0)
      /\ e4 = {} <=> ~soon
  BY <1>4, <1>5
<1> HIDE DEF e1, e2, e3, e4
<1>8. QuoteErrors = {} <=> e1 = {} /\ e2 = {} /\ e3 = {} /\ e4 = {}
  BY <1>6
<1> QED BY <1>3, <1>7, <1>8

LEMMA GatesAgree == ControllerInv => RateGatesAgree
<1> SUFFICES ASSUME ControllerInv PROVE RateGatesAgree
  OBVIOUS
<1>1. initialized /\ RefreshedRedemption # redemption <=> CanUpdateRedemptionRate
  BY RefreshMovesWhenDue, GatesAreThePokes
<1>2. updateRedemptionRate <=> CanUpdateRedemptionRate
  <2>1. RateGates => publicAccountRead(Oracle) = "ok"
    BY DEF RateGates, OracleReads, Oracle, publicAccountRead
  <2> QED BY <2>1, QuoteIsReady, GatesAreThePokes
          DEF updateRedemptionRate, update_redemption_rate_plan
<1>3. ASSUME updateRedemptionRate
      PROVE  \E tick \in redemption_rate_update_quote.next :
                /\ AdvancedRedemption.price = redemption_rate_update_quote.price
                /\ AdvancedRedemption.rate = tick.rate
                /\ AdvancedRedemption.integral = tick.integral
  <2> DEFINE tick == run_controller_tick(
                        AnchoredPrice, oracle_price_to_fixed_point(Oracle.price),
                        redemption.integral, params.kp, params.ki,
                        elapsed_since(redemption.last_updated_at, now))
  <2>1. AdvancedRedemption = [price |-> AnchoredPrice, rate |-> tick.rate,
                              integral |-> tick.integral, last_updated_at |-> now]
    BY DEF AdvancedRedemption
  <2>2. QuotePrice(CurrentRedemptionPrice) = AnchoredPrice
    BY DEF QuotePrice, AnchoredPrice
  <2>3. QuoteErrors = {}
    BY <1>3 DEF updateRedemptionRate, update_redemption_rate_plan
  <2>4. redemption_rate_update_quote = [price |-> AnchoredPrice, next |-> {tick}]
    BY <2>2, <2>3 DEF redemption_rate_update_quote
  <2> HIDE DEF tick
  <2> QED BY <2>1, <2>4
<1> QED BY <1>1, <1>2, <1>3 DEF RateGatesAgree

LEMMA SettersAgree == AdminPlansAgree
<1> SUFFICES ASSUME NEW signer \in Account
             PROVE  /\ \A ratio \in RatioInput :
                         adminPlanAndSubmit(signer)
                             /\ set_minimum_collateralization_ratio_plan(ratio)
                           <=> CanSetMinimumCollateralizationRatio(signer, ratio)
                    /\ \A kp \in GainInput, ki \in GainInput :
                         adminPlanAndSubmit(signer) /\ set_controller_gains_plan(kp, ki)
                           <=> CanSetControllerGains(signer, kp, ki)
                    /\ \A interval \in TimingInput, age \in TimingInput :
                         adminPlanAndSubmit(signer) /\ set_timing_parameters_plan(interval, age)
                           <=> CanSetTimingParameters(signer, interval, age)
                    /\ adminPlanAndSubmit(signer) <=> IsAdmin(signer)
                    /\ freezeAuthorityPlanAndSubmit(signer) <=> IsFreezeAuthority(signer)
                    /\ \A o \in OracleId : oracles[o] # ABSENT =>
                         /\ setMarketPriceOracle(signer, o) <=> CanSetMarketPriceOracle(signer, o)
                         /\ initializeProgram(o) <=> CanInitializeWith(o)
  BY DEF AdminPlansAgree
<1>1. adminPlanAndSubmit(signer) <=> IsAdmin(signer)
  BY DEF adminPlanAndSubmit, IsAdmin
<1>2. freezeAuthorityPlanAndSubmit(signer) <=> IsFreezeAuthority(signer)
  BY DEF freezeAuthorityPlanAndSubmit, IsFreezeAuthority
<1>3. \A ratio \in RatioInput :
        adminPlanAndSubmit(signer) /\ set_minimum_collateralization_ratio_plan(ratio)
          <=> CanSetMinimumCollateralizationRatio(signer, ratio)
  BY <1>1 DEF set_minimum_collateralization_ratio_plan, CanSetMinimumCollateralizationRatio
<1>4. \A kp \in GainInput, ki \in GainInput :
        adminPlanAndSubmit(signer) /\ set_controller_gains_plan(kp, ki)
          <=> CanSetControllerGains(signer, kp, ki)
  BY <1>1 DEF set_controller_gains_plan, CanSetControllerGains
<1>5. \A interval \in TimingInput, age \in TimingInput :
        adminPlanAndSubmit(signer) /\ set_timing_parameters_plan(interval, age)
          <=> CanSetTimingParameters(signer, interval, age)
  BY <1>1 DEF set_timing_parameters_plan, CanSetTimingParameters
<1>6. ASSUME NEW o \in OracleId, oracles[o] # ABSENT
      PROVE  /\ setMarketPriceOracle(signer, o) <=> CanSetMarketPriceOracle(signer, o)
             /\ initializeProgram(o) <=> CanInitializeWith(o)
  <2>1. publicAccountRead(oracles[o]) = "ok"
    BY <1>6 DEF publicAccountRead
  <2>2. /\ set_market_price_oracle_plan(o) <=> AcceptableOracle(o)
        /\ initialize_program_plan(o) <=> AcceptableOracle(o)
    BY DEF set_market_price_oracle_plan, initialize_program_plan, AcceptableOracle
  <2> QED BY <1>1, <2>1, <2>2
          DEF setMarketPriceOracle, CanSetMarketPriceOracle, initializeProgram, CanInitializeWith
<1> QED BY <1>1, <1>2, <1>3, <1>4, <1>5, <1>6

\* Whatever its other clients did, the module submits an update, and moves the redemption
\* state with the combined poke, exactly when the chain accepts it; its quote is what the
\* update stores; and its setters take the arguments the program takes
\* (redemption_rate_update_quote, the planners and the handlers they speak for).
THEOREM ModulePlansWhatTheChainAccepts == ControllerSpec => []ControllerPlansAgree
<1>1. ControllerInv => ControllerPlansAgree
  BY GatesAgree, SettersAgree DEF ControllerPlansAgree
<1> QED BY <1>1, ControllerIsSound, PTL

---------------------------------------------------------------------------
(* Leaving, and what the off-chain module plans of positions               *)

\* No position owes more than the global total says.
LEMMA DebtIsInTheTotal ==
  ASSUME BankInv, NEW p \in PositionId, initialized
  PROVE  positions[p].normalized_debt \in Nat /\ positions[p].normalized_debt <= Total
<1> DEFINE f == debts(positions)
<1>1. \A q \in PositionId : positions[q].normalized_debt \in Nat
  BY PositionIsRead
<1>2. \A q \in PositionId : f[q] = positions[q].normalized_debt
  BY DEF debts
<1>3. Total = SumFunctionOnSet(f, PositionId)
  BY DEF BankInv, DebtCoversSupply, DebtIsTheSumOfPositions, Total, debts
<1> HIDE DEF f
<1>4. f[p] <= SumFunctionOnSet(f, PositionId)
  BY <1>1, <1>2, PositionAssumption, SumCoversEachTerm
<1> QED BY <1>1, <1>2, <1>3, <1>4

\* A debt rounded up to coins buys back exactly that debt.
LEMMA PaymentClears ==
  ASSUME NEW debt \in Nat, NEW rate \in Nat, ONE <= rate
  PROVE  /\ MulDivCeil(debt, rate, ONE) \in Nat
         /\ MulDiv(MulDivCeil(debt, rate, ONE), ONE, rate) = debt
<1> DEFINE owed == MulDivCeil(debt, rate, ONE)
           bought == MulDiv(owed, ONE, rate)
<1>1. debt * rate \in Nat /\ rate \in Nat \ {0}
  BY Scale
<1>2. owed \in Nat /\ debt * rate <= owed * ONE /\ owed * ONE < debt * rate + ONE
  BY <1>1, Scale, CeilIsRead DEF MulDivCeil
<1>3. owed * ONE \in Nat
  BY <1>2, Scale
<1>4. /\ bought \in Nat /\ bought * rate <= owed * ONE
      /\ owed * ONE < bought * rate + rate
  BY <1>1, <1>3, FloorIsRead DEF MulDiv
<1> HIDE DEF owed, bought
<1>5. bought * rate < (debt + 1) * rate /\ debt * rate < (bought + 1) * rate
  <2>1. (debt + 1) * rate = debt * rate + rate /\ (bought + 1) * rate = bought * rate + rate
    BY <1>4
  <2>2. bought * rate \in Nat
    BY <1>4
  <2> QED BY <1>1, <1>2, <1>3, <1>4, <2>1, <2>2, Scale
<1>6. bought < debt + 1 /\ debt < bought + 1
  BY <1>1, <1>4, <1>5, FactorCancels
<1>7. bought = debt
  BY <1>4, <1>6
<1> QED BY <1>2, <1>7 DEF owed, bought

\* The whole coins a debt is shown as pay off no more than the debt, and leave less than a
\* coin's worth and one unit of it.
LEMMA ShownDebtPays ==
  ASSUME NEW debt \in Nat, NEW rate \in Nat, ONE <= rate
  PROVE  LET shown == MulDiv(debt, rate, ONE)
             paid  == MulDiv(shown, ONE, rate)
         IN  shown \in Nat /\ paid \in Nat /\ paid <= debt /\ (debt - paid - 1) * rate < ONE
<1> DEFINE shown == MulDiv(debt, rate, ONE)
           paid == MulDiv(shown, ONE, rate)
<1>1. debt * rate \in Nat /\ rate \in Nat \ {0}
  BY Scale
<1>2. shown \in Nat /\ shown * ONE <= debt * rate /\ debt * rate < shown * ONE + ONE
  BY <1>1, Scale, FloorIsRead DEF MulDiv
<1>3. shown * ONE \in Nat
  BY <1>2, Scale
<1>4. paid \in Nat /\ paid * rate <= shown * ONE /\ shown * ONE < paid * rate + rate
  BY <1>1, <1>3, FloorIsRead DEF MulDiv
<1> HIDE DEF shown, paid
<1>5. paid * rate \in Nat
  BY <1>4
<1>6. paid <= debt
  <2>1. paid * rate <= debt * rate
    BY <1>1, <1>2, <1>3, <1>4, <1>5
  <2> QED BY <1>1, <1>4, <2>1, FactorCancels
<1>7. (debt - paid - 1) * rate < ONE
  <2>1. (debt - paid - 1) * rate = debt * rate - paid * rate - rate
    BY <1>4
  <2> QED BY <1>1, <1>2, <1>3, <1>4, <1>5, <2>1, Scale
<1> QED BY <1>2, <1>4, <1>6, <1>7 DEF shown, paid

LEMMA PositionsCanLeave ==
  ASSUME BankInv, NEW p \in PositionId, IsOpen(p)
  PROVE  LET debt == positions[p].normalized_debt
             collateral == positions[p].collateral
             owed == MulDivCeil(debt, Rate, ONE)
         IN  /\ owed <= coins => CanRepayDebt(p, owed) /\ RepaidDebt(owed) = debt
             /\ CanDepositCollateral(p, 0) /\ CollateralAfterDeposit(p, 0) = vaults[p]
             /\ debt = 0 /\ ~params.is_frozen => CanWithdrawCollateral(p, collateral)
             /\ debt = 0 /\ vaults[p] = 0 => CanClosePosition(p)
<1> DEFINE debt == positions[p].normalized_debt
           collateral == positions[p].collateral
           owed == MulDivCeil(debt, Rate, ONE)
<1>1. /\ initialized /\ Rate \in Nat /\ ONE <= Rate
      /\ debt \in Nat /\ debt <= Total
  BY BankIsRead, DebtIsInTheTotal DEF IsOpen
<1>2. /\ collateral \in Nat /\ vaults[p] \in Nat /\ collateral <= vaults[p] /\ purse \in Nat
  BY PositionIsRead DEF BankInv, TypeOK
<1>3. RepaidDebt(owed) = debt
  BY <1>1, PaymentClears DEF RepaidDebt, Rate, ONE
<1>4. owed <= coins => CanRepayDebt(p, owed)
  <2> HIDE DEF owed
  <2> QED BY <1>1, <1>3 DEF CanRepayDebt, Total
<1>5. CanDepositCollateral(p, 0) /\ CollateralAfterDeposit(p, 0) = vaults[p]
  BY <1>2 DEF CanDepositCollateral, CollateralAfterDeposit
<1>6. debt = 0 /\ ~params.is_frozen => CanWithdrawCollateral(p, collateral)
  BY <1>2 DEF CanWithdrawCollateral
<1>7. debt = 0 /\ vaults[p] = 0 => CanClosePosition(p)
  BY <1>2 DEF CanClosePosition
<1> QED BY <1>3, <1>4, <1>5, <1>6, <1>7

\* Every open position can be repaid, reconciled, withdrawn from and closed, whatever the
\* fee did to its debt (repay_debt, deposit_collateral, withdraw_collateral,
\* close_position).
THEOREM OwnersCanLeave == Spec => []NoPositionIsTrapped
<1>1. BankInv => NoPositionIsTrapped
  BY PositionsCanLeave DEF NoPositionIsTrapped, Rate, ONE
<1> QED BY <1>1, BankIsSound, PTL

\* The module's own projection and its own rounding up are the program's.
LEMMA SecondImplementationsAgree ==
  ASSUME BankInv, initialized
  PROVE  /\ checked_accumulator = Rate
         /\ \A a \in Nat : checked_debt_delta(a, Rate) = NormalizedLoan(a, Rate)
<1>1. checked_accumulator = Rate
  <2> DEFINE fee == params.stability_fee
             anchor == accumulator.rate
             n == Least(elapsed_since(accumulator.last_accrued_at, now),
                        MAXIMUM_COMPOUNDING_WINDOW)
  <2>1. n \in Nat
    BY BankIsRead, Scale DEF elapsed_since, Greatest, Least
  <2>2. Rate = MulDiv(anchor, compound_rate(fee, n), ONE)
    BY DEF Rate, CurrentAccumulatedRate, project_forward, ONE
  <2>3. fee = ONE => compound_rate(fee, n) = ONE
    BY <2>1, NothingCompounds
  <2>4. checked_accumulator
           = MulDiv(anchor, IF fee = ONE THEN ONE ELSE compound_rate(fee, n), ONE)
    BY DEF checked_accumulator, ONE
  <2> HIDE DEF fee, anchor, n
  <2> QED BY <2>2, <2>3, <2>4
<1>2. ASSUME NEW a \in Nat
      PROVE  checked_debt_delta(a, Rate) = NormalizedLoan(a, Rate)
  <2> DEFINE x == a * ONE
  <2>1. x \in Nat /\ Rate \in Nat \ {0}
    BY BankIsRead, Scale
  <2>2. checked_debt_delta(a, Rate)
           = IF x % Rate = 0 THEN x \div Rate ELSE x \div Rate + 1
    BY DEF checked_debt_delta, ONE
  <2>3. NormalizedLoan(a, Rate) = (x + Rate - 1) \div Rate
    BY DEF NormalizedLoan, MulDivCeil, ONE
  <2> HIDE DEF x
  <2> QED BY <2>1, <2>2, <2>3, CeilIsFloorAndRemainder
<1> QED BY <1>1, <1>2

\* A loan of nothing is no debt.
LEMMA LoanOfNothing ==
  ASSUME BankInv, initialized
  PROVE  NormalizedLoan(0, Rate) = 0
<1>1. Rate \in Nat \ {0} /\ 0 * ONE = 0
  BY BankIsRead, Scale
<1>2. (0 + Rate - 1) \div Rate = 0
  BY <1>1
<1> QED BY <1>1, <1>2 DEF NormalizedLoan, MulDivCeil, ONE

LEMMA PositionPlans ==
  ASSUME BankInv, NEW p \in PositionId, NEW a \in Amount
  PROVE  /\ openPosition(p, a) /\ a <= purse <=> CanOpenPosition(p, a)
         /\ depositCollateral(p, a) <=> CanDepositCollateral(p, a)
         /\ withdrawCollateral(p, a) <=> CanWithdrawCollateral(p, a)
         /\ generateDebt(p, a) <=> CanGenerateDebt(p, a)
         /\ repayDebt(p, a) <=> CanRepayDebt(p, a)
<1>1. a \in Nat /\ positions[p] \in Position
  BY PositionIsRead, AmountAssumption
<1>2. Reads(p) /\ validated_position(p) <=> IsOpen(p)
  BY DEF Reads, position_status, validated_position, IsOpen
<1>3. openPosition(p, a) /\ a <= purse <=> CanOpenPosition(p, a)
  BY DEF openPosition, open_position_plan, position_status, CanOpenPosition
<1>4. depositCollateral(p, a) <=> CanDepositCollateral(p, a)
  BY <1>2 DEF depositCollateral, deposit_collateral_plan, CanDepositCollateral
<1>5. withdrawCollateral(p, a) <=> CanWithdrawCollateral(p, a)
  BY <1>2 DEF withdrawCollateral, withdraw_collateral_plan, withdrawal_keeps_health,
              CanWithdrawCollateral
<1>6. generateDebt(p, a) <=> CanGenerateDebt(p, a)
  <2>1. IsOpen(p) => /\ checked_accumulator = Rate
                     /\ checked_debt_delta(a, Rate) = NormalizedLoan(a, Rate)
    BY <1>1, SecondImplementationsAgree DEF IsOpen
  <2> QED BY <1>2, <2>1
          DEF generateDebt, generate_debt_plan, CanGenerateDebt, Collateralized, Rate
<1>7. repayDebt(p, a) <=> CanRepayDebt(p, a)
  <2>1. RepaidDebt(a) = MulDiv(a, FIXED_POINT_ONE, CurrentAccumulatedRate)
    BY DEF RepaidDebt
  <2>2. IsOpen(p) => /\ RepaidDebt(a) \in Nat /\ Total \in Nat
                     /\ positions[p].normalized_debt \in Nat
                     /\ positions[p].normalized_debt <= Total
    <3>1. IsOpen(p) => Rate \in Nat \ {0} /\ Total \in Nat
      BY BankIsRead, Scale DEF IsOpen
    <3> QED BY <1>1, <2>1, <3>1, Scale, MulDivIsNat, DebtIsInTheTotal DEF IsOpen, Rate, ONE
  <2>3. repayDebt(p, a) <=> /\ IsOpen(p) /\ a <= coins
                            /\ RepaidDebt(a) <= positions[p].normalized_debt
    BY <1>2, <2>1 DEF repayDebt, repay_debt_plan
  <2>4. CanRepayDebt(p, a) <=> /\ IsOpen(p) /\ a <= coins
                               /\ RepaidDebt(a) <= positions[p].normalized_debt
                               /\ RepaidDebt(a) <= Total
    BY DEF CanRepayDebt, Total
  <2> QED BY <2>2, <2>3, <2>4
<1> QED BY <1>3, <1>4, <1>5, <1>6, <1>7

LEMMA HealthCanBeActedOn ==
  ASSUME BankInv, NEW p \in PositionId, positionHealth(p)
  PROVE  LET health == position_health(p)
             left == positions[p].normalized_debt - RepaidDebt(health.nominal_debt)
         IN  /\ ~params.is_frozen =>
                  (health.is_collateralized /\ CurrentRedemptionPrice # 0
                     <=> CanGenerateDebt(p, 0))
             /\ health.nominal_debt <= coins => CanRepayDebt(p, health.nominal_debt)
             /\ (left - 1) * CurrentAccumulatedRate < FIXED_POINT_ONE
<1> DEFINE debt == positions[p].normalized_debt
           collateral == positions[p].collateral
           shown == MulDiv(debt, Rate, ONE)
           paid == RepaidDebt(shown)
<1>1. IsOpen(p) /\ initialized
  BY DEF positionHealth, Reads, validated_position, IsOpen
<1>2. /\ Rate \in Nat /\ ONE <= Rate /\ debt \in Nat /\ debt <= Total /\ Total \in Nat
  BY <1>1, BankIsRead, DebtIsInTheTotal
<1>3. /\ position_health(p).nominal_debt = shown
      /\ position_health(p).is_collateralized = Collateralized(collateral, debt)
  BY DEF position_health, Rate, ONE
<1>4. shown \in Nat /\ paid \in Nat /\ paid <= debt /\ (debt - paid - 1) * Rate < ONE
  BY <1>2, ShownDebtPays DEF RepaidDebt, Rate, ONE
<1>5. ~params.is_frozen =>
        (Collateralized(collateral, debt) /\ CurrentRedemptionPrice # 0
           <=> CanGenerateDebt(p, 0))
  <2>1. NormalizedLoan(0, CurrentAccumulatedRate) = 0 /\ debt + 0 = debt
    BY <1>1, <1>2, LoanOfNothing DEF Rate
  <2> QED BY <1>1, <2>1 DEF CanGenerateDebt
<1> HIDE DEF shown
<1>6. shown <= coins => CanRepayDebt(p, shown)
  <2>1. paid <= Total
    BY <1>2, <1>4
  <2> QED BY <1>1, <1>4, <2>1 DEF CanRepayDebt, Total
<1> QED BY <1>3, <1>4, <1>5, <1>6 DEF Rate, ONE

LEMMA ClosingAndFeePlans ==
  /\ \A p \in PositionId : closePosition(p) <=> CanClosePosition(p)
  /\ accrueStabilityFee <=> CanAccrueStabilityFee
  /\ \A signer \in Account, fee \in FeeInput :
       setStabilityFeePerMillisecond(signer, fee) <=> CanSetStabilityFee(signer, fee)
BY DEF closePosition, close_position_plan, CanClosePosition, Reads, position_status,
       validated_position, IsOpen, accrueStabilityFee, CanAccrueStabilityFee,
       setStabilityFeePerMillisecond, adminPlanAndSubmit,
       set_stability_fee_per_millisecond_plan, CanSetStabilityFee, IsAdmin

\* Of positions and the fee too the module plans what the chain accepts, its second
\* implementations of the accumulator and of the rounding included, and the health page can
\* be acted on (the planners, position_health and the handlers).
THEOREM PositionPlansAreAccepted == Spec => []PositionPlansAgree
<1>1. BankInv => PositionPlansAgree
  BY PositionPlans, HealthCanBeActedOn, ClosingAndFeePlans DEF PositionPlansAgree
<1> QED BY <1>1, BankIsSound, PTL
=============================================================================
