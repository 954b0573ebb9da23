------------------------------ MODULE PoolSwap ------------------------------
(***************************************************************************)
(* Pricing of one exact-in swap against a cp-amm pool (state/pool.rs,       *)
(* get_swap_result).  Shared by the pool program and by the lending pool,   *)
(* which trades through it.                                                 *)
(***************************************************************************)
EXTENDS PoolFees

CONSTANTS SqrtMinPrice, SqrtMaxPrice

ASSUME PriceRangeAssumption == UsablePriceRange(SqrtMinPrice, SqrtMaxPrice)

(* The price the curve moves to and the amount it gives for amount_in.       *)
GetSwapResultFromAToB(sqrt_price, liquidity, amount_in) ==
    LET next == GetNextSqrtPriceFromInput(sqrt_price, liquidity, amount_in, TRUE)
    IN  [next_sqrt_price |-> next,
         output_amount   |-> GetDeltaAmountBDown(next, sqrt_price, liquidity)]

GetSwapResultFromBToA(sqrt_price, liquidity, amount_in) ==
    LET next == GetNextSqrtPriceFromInput(sqrt_price, liquidity, amount_in, FALSE)
    IN  [next_sqrt_price |-> next,
         output_amount   |-> GetDeltaAmountADown(sqrt_price, next, liquidity)]

SwapResult(next_sqrt_price, output_amount, fees) ==
    [output_amount |-> output_amount, next_sqrt_price |-> next_sqrt_price,
     lp_fee |-> fees.lp_fee, protocol_fee |-> fees.protocol_fee,
     partner_fee |-> fees.partner_fee, referral_fee |-> fees.referral_fee]

TradeOnCurve(sqrt_price, liquidity, amount_in, a_for_b) ==
    IF a_for_b THEN GetSwapResultFromAToB(sqrt_price, liquidity, amount_in)
               ELSE GetSwapResultFromBToA(sqrt_price, liquidity, amount_in)

(* The fee is taken from the input or from the output, never from both.      *)
SwapNetInput(sqrt_price, liquidity, fees, a_for_b) ==
    LET traded == TradeOnCurve(sqrt_price, liquidity, fees.amount, a_for_b)
    IN  SwapResult(traded.next_sqrt_price, traded.output_amount, fees)

SwapNetOutput(traded, fees) ==
    SwapResult(traded.next_sqrt_price, fees.amount, fees)

SwapGrossInput(dyn, traded, has_referral, current_point) ==
    SwapNetOutput(traded, GetFeeOnAmount(dyn, traded.output_amount, has_referral, current_point))

GetSwapResult(sqrt_price, liquidity, dyn, amount_in, a_for_b, has_referral, current_point) ==
    IF FeesOnInput(a_for_b)
    THEN SwapNetInput(sqrt_price, liquidity,
                      GetFeeOnAmount(dyn, amount_in, has_referral, current_point), a_for_b)
    ELSE SwapGrossInput(dyn, TradeOnCurve(sqrt_price, liquidity, amount_in, a_for_b),
                        has_referral, current_point)

(* Mutant: the bounds of the two directions are swapped.                     *)
PriceAfterIsValid_Swapped(next_sqrt_price, a_for_b) ==
    IF a_for_b THEN next_sqrt_price <= SqrtMaxPrice ELSE next_sqrt_price >= SqrtMinPrice

(* The code rejects a price out of range.                                    *)
PriceAfterIsValid(next_sqrt_price, a_for_b) ==
    IF a_for_b THEN next_sqrt_price >= SqrtMinPrice ELSE next_sqrt_price <= SqrtMaxPrice
=============================================================================
