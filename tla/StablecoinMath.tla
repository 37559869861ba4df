--------------------------- MODULE StablecoinMath ---------------------------
(***************************************************************************)
(* The fixed-point arithmetic of the stablecoin program                    *)
(* (programs/stablecoin/core: math, controller, collateralization).  The   *)
(* program's scale 10^27 and its other magnitudes are parameters; what     *)
(* matters is which way each division rounds and where a value is clamped. *)
(* The 256 and 512 bit intermediates hold every product, so integers are   *)
(* unbounded here.                                                         *)
(*                                                                         *)
(* A definition under "Slip:" is the next one with a plausible mistake the *)
(* properties are there to notice; no action uses it.                      *)
(***************************************************************************)
EXTENDS Integers

CONSTANTS
    FIXED_POINT_ONE,
    ORACLE_ONE,                   \* 1.0 in the scale oracle prices are published in
    MAXIMUM_COMPOUNDING_WINDOW,
    INTEGRAL_CLAMP,
    RATE_DELTA_CLAMP,
    MINIMUM_REDEMPTION_PRICE,
    MAXIMUM_REDEMPTION_PRICE

ASSUME ScaleAssumption ==
    /\ FIXED_POINT_ONE \in Nat \ {0}
    /\ ORACLE_ONE \in Nat \ {0}
    /\ MAXIMUM_COMPOUNDING_WINDOW \in Nat
ASSUME ControllerAssumption ==
    /\ RATE_DELTA_CLAMP \in 1..(FIXED_POINT_ONE - 1)
    /\ INTEGRAL_CLAMP = RATE_DELTA_CLAMP
    /\ MINIMUM_REDEMPTION_PRICE \in Nat \ {0}
    /\ MAXIMUM_REDEMPTION_PRICE \in Nat
    /\ MINIMUM_REDEMPTION_PRICE < MAXIMUM_REDEMPTION_PRICE

Least(a, b) == IF a <= b THEN a ELSE b
Greatest(a, b) == IF a >= b THEN a ELSE b

MulDiv(a, b, c) == (a * b) \div c

MulDivCeil(a, b, c) == (a * b + c - 1) \div c

\* Division of a signed number that rounds toward zero.
TruncatedDiv(a, c) == IF a >= 0 THEN a \div c ELSE -((-a) \div c)

\* OraclePriceAccount::price in the program's scale.
oracle_price_to_fixed_point(p) == MulDiv(p, FIXED_POINT_ONE, ORACLE_ONE)

\* What a turn of exponentiation by squaring keeps.
Turn == [exponent : Nat, result : Nat, base : Nat]

\* One turn, each product rounded down.
squaring_turn[s \in Turn] ==
    IF s.exponent = 0
    THEN s
    ELSE [exponent |-> s.exponent \div 2,
          result |-> IF s.exponent % 2 = 1 THEN MulDiv(s.result, s.base, FIXED_POINT_ONE)
                                          ELSE s.result,
          base |-> MulDiv(s.base, s.base, FIXED_POINT_ONE)]

\* The exponent is zero long before it has taken that many turns.
compound_rate(rate, milliseconds_elapsed) ==
    LET after[k \in 0..milliseconds_elapsed] ==
            IF k = 0
            THEN [exponent |-> milliseconds_elapsed, result |-> FIXED_POINT_ONE, base |-> rate]
            ELSE squaring_turn[after[k - 1]]
    IN  after[milliseconds_elapsed].result

elapsed_since(last, now) == Greatest(now - last, 0)

\* compute_current_accumulated_rate, compute_current_redemption_price and their
\* wide forms: an anchored value carried forward to now, for one window at most.
project_forward(anchor, rate, last, now) ==
    MulDiv(anchor,
           compound_rate(rate, Least(elapsed_since(last, now), MAXIMUM_COMPOUNDING_WINDOW)),
           FIXED_POINT_ONE)

bound_redemption_price(p) ==
    Greatest(Least(p, MAXIMUM_REDEMPTION_PRICE), MINIMUM_REDEMPTION_PRICE)

clamp_to_magnitude(value, magnitude) == Greatest(Least(value, magnitude), -magnitude)

\* Slip: the integral term may wind up past what the rate can express.
WindingIntegral(integral, delta) == clamp_to_magnitude(integral + delta, 3 * INTEGRAL_CLAMP)

advance_integral(integral, delta) == clamp_to_magnitude(integral + delta, INTEGRAL_CLAMP)

\* Slip: at a price bound the rate may still point outside.
UnguardedRate(price, rate) == rate

\* At a price bound the rate may only point back inside the band.
rate_at_price(price, rate) ==
    IF price <= MINIMUM_REDEMPTION_PRICE THEN Greatest(rate, FIXED_POINT_ONE)
    ELSE IF price >= MAXIMUM_REDEMPTION_PRICE THEN Least(rate, FIXED_POINT_ONE)
    ELSE rate

\* One proportional-integral step: the new rate and the new integral term.
run_controller_tick(price, market_price, integral, kp, ki, milliseconds_elapsed) ==
    LET error == price - market_price
        proportional == TruncatedDiv(kp * error, FIXED_POINT_ONE)
        delta == TruncatedDiv(ki * error * milliseconds_elapsed, FIXED_POINT_ONE)
        new_integral == advance_integral(integral, delta)
        adjustment == clamp_to_magnitude(proportional + new_integral, RATE_DELTA_CLAMP)
    IN  [rate |-> rate_at_price(price, Greatest(FIXED_POINT_ONE + adjustment, 1)),
         integral |-> new_integral]

\* collateral >= nominal debt * price * ratio with every division multiplied out.
is_collateralized(collateral, normalized_debt, accumulator, price, ratio) ==
    collateral * FIXED_POINT_ONE * FIXED_POINT_ONE * FIXED_POINT_ONE
        >= normalized_debt * accumulator * price * ratio
=============================================================================
