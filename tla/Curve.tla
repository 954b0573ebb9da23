------------------------------- MODULE Curve -------------------------------
(***************************************************************************)
(* The concentrated-liquidity curve of cp-amm (programs/cp-amm/src/curve.rs *)
(* and the mul-div helpers of src/math).  Prices are square roots in fixed  *)
(* point: ONE_Q stands for 2^RESOLUTION = 2^64 and LIQUIDITY_SCALE for      *)
(* 2^128.  Every operator is total; where the code panics or returns an     *)
(* error, the caller carries the condition as a guard.                      *)
(***************************************************************************)
EXTENDS Integers

CONSTANT ONE_Q  \* the fixed-point unit of a square-root price

ASSUME OneQAssumption == ONE_Q \in Nat \ {0}

(* What the curve relies on in a pool's price range: amounts of token A are  *)
(* divided by prices of it.                                                  *)
UsablePriceRange(sqrt_min_price, sqrt_max_price) ==
    /\ sqrt_min_price \in Nat \ {0}
    /\ sqrt_max_price \in Nat
    /\ sqrt_min_price < sqrt_max_price

LIQUIDITY_SCALE == ONE_Q * ONE_Q

CapAt(x, cap) == IF x < cap THEN x ELSE cap

MulDivDown(x, y, denominator) == (x * y) \div denominator

MulDivUp(x, y, denominator) == (x * y + denominator - 1) \div denominator

(* Mutant: the lower price is used for both ends of the interval.            *)
GetDeltaAmountADown_OnePrice(lower, upper, liquidity) ==
    MulDivDown(liquidity, upper - lower, lower * lower)

GetDeltaAmountADown(lower, upper, liquidity) ==
    MulDivDown(liquidity, upper - lower, lower * upper)

GetDeltaAmountAUp(lower, upper, liquidity) ==
    MulDivUp(liquidity, upper - lower, lower * upper)

(* Mutant: the amount paid out is rounded up.                                *)
GetDeltaAmountBDown_RoundedUp(lower, upper, liquidity) ==
    MulDivUp(liquidity, upper - lower, LIQUIDITY_SCALE)

GetDeltaAmountBDown(lower, upper, liquidity) ==
    MulDivDown(liquidity, upper - lower, LIQUIDITY_SCALE)

GetDeltaAmountBUp(lower, upper, liquidity) ==
    MulDivUp(liquidity, upper - lower, LIQUIDITY_SCALE)

(* Mutant: the price after selling token A is rounded down.                  *)
GetNextSqrtPriceFromAmountA_RoundingDown(sqrt_price, liquidity, amount) ==
    MulDivDown(liquidity, sqrt_price, liquidity + amount * sqrt_price)

(* Selling token A lowers the price; it is rounded up, against the trader.  *)
GetNextSqrtPriceFromAmountARoundingUp(sqrt_price, liquidity, amount) ==
    IF amount = 0 THEN sqrt_price
    ELSE MulDivUp(liquidity, sqrt_price, liquidity + amount * sqrt_price)

(* Selling token B raises the price; it is rounded down, against the trader.*)
GetNextSqrtPriceFromAmountBRoundingDown(sqrt_price, liquidity, amount) ==
    sqrt_price + MulDivDown(amount, LIQUIDITY_SCALE, liquidity)

GetNextSqrtPriceFromInput(sqrt_price, liquidity, amount, a_for_b) ==
    IF a_for_b
    THEN GetNextSqrtPriceFromAmountARoundingUp(sqrt_price, liquidity, amount)
    ELSE GetNextSqrtPriceFromAmountBRoundingDown(sqrt_price, liquidity, amount)
=============================================================================
