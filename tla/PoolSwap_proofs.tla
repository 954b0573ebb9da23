-------------------------- MODULE PoolSwap_proofs --------------------------
(***************************************************************************)
(* Facts about the swap of cp-amm that hold for every scale, fee             *)
(* configuration and price range: the shares of a fee, and what one swap     *)
(* does to the price and leaves in the pool.                                 *)
(***************************************************************************)
EXTENDS PoolSwap, OperatorTheorems

Fees == [amount : Nat, lp_fee : Nat, protocol_fee : Nat, partner_fee : Nat, referral_fee : Nat]

LEMMA FeeScale ==
    /\ FEE_DENOMINATOR \in Nat \ {0}
    /\ MAX_FEE_NUMERATOR \in Nat /\ MAX_FEE_NUMERATOR < FEE_DENOMINATOR
    /\ BASIS_POINT_MAX \in Nat \ {0}
    /\ ActivationPoint \in Nat
BY FeeAssumption, FeeScaleAssumption

(* The fee scheduler never drives the fee below zero.                        *)
LEMMA BaseFeeType ==
    ASSUME NEW current_point \in Nat
    PROVE  GetCurrentBaseFeeNumerator(current_point) \in Nat
<1> DEFINE fee == GetBaseFeeNumerator(BaseFee, ActivationPoint, current_point)
<1>1. BaseFee \in BaseFeeParameters /\ ValidBaseFee(BaseFee) /\ ActivationPoint \in Nat
    BY FeeAssumption DEF UsableFees
<1>2. fee \in MIN_FEE_NUMERATOR .. MAX_FEE_NUMERATOR
    BY <1>1, BaseFeeInBounds
<1>3. MIN_FEE_NUMERATOR \in Nat /\ MAX_FEE_NUMERATOR \in Nat
    BY FeeScaleAssumption
<1> HIDE DEF fee
<1>4. fee \in Nat
    BY <1>2, <1>3
<1> QED
    BY <1>4 DEF GetCurrentBaseFeeNumerator, fee

LEMMA VariableFeeType ==
    ASSUME NEW dyn \in DynamicFeeState
    PROVE  GetVariableFee(dyn) \in Nat
<1>1. /\ dyn.volatility_accumulator \in Nat /\ DynamicFee.bin_step \in Nat
      /\ DynamicFee.variable_fee_control \in Nat /\ VARIABLE_FEE_SCALE \in Nat \ {0}
    BY FeeAssumption DEF UsableFees, DynamicFeeState, DynamicFeeParameters
<1> DEFINE vfa_bin == dyn.volatility_accumulator * DynamicFee.bin_step
<1>2. vfa_bin \in Nat
    BY <1>1
<1> HIDE DEF vfa_bin
<1>3. vfa_bin * vfa_bin \in Nat
    BY <1>2
<1>4. MulDivUp(vfa_bin * vfa_bin, DynamicFee.variable_fee_control, VARIABLE_FEE_SCALE) \in Nat
    BY <1>1, <1>3, MulDivUpType
<1> QED
    BY <1>4 DEF GetVariableFee, MulDivUp, vfa_bin

(* The net amount and the shares of its fee together.                        *)
WholeAmount(fees) ==
    fees.amount + fees.lp_fee + fees.protocol_fee + fees.partner_fee + fees.referral_fee

(* A fee never exceeds the amount it is taken from and its shares add up:    *)
(* no share is negative and no token is lost, whatever the percentages.      *)
LEMMA FeeShares ==
    ASSUME NEW dyn \in DynamicFeeState, NEW amount \in Nat, NEW has_referral \in BOOLEAN,
           NEW current_point \in Nat
    PROVE  LET fees == GetFeeOnAmount(dyn, amount, has_referral, current_point)
           IN  fees \in Fees /\ WholeAmount(fees) = amount
<1> DEFINE total     == GetTotalTradingFee(dyn, current_point)
           numerator == CapAt(total, MAX_FEE_NUMERATOR)
           fee       == MulDivUp(amount, numerator, FEE_DENOMINATOR)
           protocol  == MulDivDown(fee, ProtocolFeePercent, 100)
           referral  == IF has_referral THEN MulDivDown(protocol, ReferralFeePercent, 100) ELSE 0
           partner   == IF HasPartner /\ PartnerFeePercent > 0
                        THEN MulDivDown(protocol - referral, PartnerFeePercent, 100) ELSE 0
<1>0. /\ ProtocolFeePercent \in Nat /\ ProtocolFeePercent <= 100
      /\ ReferralFeePercent \in Nat /\ ReferralFeePercent <= 100
      /\ PartnerFeePercent \in Nat /\ PartnerFeePercent <= 100
      /\ 100 \in Nat \ {0}
    BY FeeAssumption
<1>1. total \in Nat
    BY BaseFeeType, VariableFeeType DEF GetTotalTradingFee
<1>2. numerator \in Nat /\ numerator <= FEE_DENOMINATOR
    <2> HIDE DEF total
    <2> QED BY <1>1, CapAtType, FeeScale
<1> HIDE DEF numerator
<1>3. fee \in Nat
    BY <1>2, MulDivUpType, FeeScale
<1>4. fee <= amount
    <2>1. amount * numerator <= amount * FEE_DENOMINATOR
        BY <1>2, FeeScale
    <2> QED
        BY <1>2, <2>1, MulDivUpBound, FeeScale
<1> HIDE DEF fee
<1>5. protocol \in Nat /\ protocol <= fee
    BY <1>0, <1>3, MulDivDownType, MulDivDownBound
<1> HIDE DEF protocol
<1>6. referral \in Nat /\ referral <= protocol
    BY <1>0, <1>5, MulDivDownType, MulDivDownBound
<1> HIDE DEF referral
<1>7. partner \in Nat /\ partner <= protocol - referral
    <2>1. protocol - referral \in Nat
        BY <1>5, <1>6
    <2> QED
        BY <1>0, <2>1, MulDivDownType, MulDivDownBound
<1> HIDE DEF partner
<1>8. SplitFee(amount, fee, protocol, referral, partner) \in Fees
    BY <1>3, <1>4, <1>5, <1>6, <1>7 DEF SplitFee, Fees
<1>9. WholeAmount(SplitFee(amount, fee, protocol, referral, partner)) = amount
    BY <1>3, <1>4, <1>5, <1>6, <1>7 DEF SplitFee, WholeAmount
<1> QED
    BY <1>8, <1>9 DEF GetFeeOnAmount, ChargeFee, SplitTradingFee, SplitProtocolFee,
                total, numerator, fee, protocol, referral, partner

LEMMA FeeType ==
    ASSUME NEW dyn \in DynamicFeeState, NEW amount \in Nat, NEW has_referral \in BOOLEAN,
           NEW current_point \in Nat
    PROVE  GetFeeOnAmount(dyn, amount, has_referral, current_point) \in Fees
BY FeeShares
-----------------------------------------------------------------------------
SwapResults == [output_amount : Nat, next_sqrt_price : Nat, lp_fee : Nat, protocol_fee : Nat,
                partner_fee : Nat, referral_fee : Nat]

(* Selling token A never raises the price.                                   *)
LEMMA PriceFallsSellingA ==
    ASSUME NEW sqrt_price \in Nat, NEW liquidity \in Nat \ {0}, NEW amount \in Nat
    PROVE  LET next == GetNextSqrtPriceFromInput(sqrt_price, liquidity, amount, TRUE)
           IN  next \in Nat /\ next <= sqrt_price
<1> DEFINE d == liquidity + amount * sqrt_price
<1>1. amount * sqrt_price \in Nat
    OBVIOUS
<1>2. d \in Nat \ {0} /\ liquidity <= d
    BY <1>1
<1> HIDE DEF d
<1>3. liquidity * sqrt_price <= sqrt_price * d
    BY <1>2
<1>4. MulDivUp(liquidity, sqrt_price, d) \in Nat /\ MulDivUp(liquidity, sqrt_price, d) <= sqrt_price
    BY <1>2, <1>3, MulDivUpType, MulDivUpBound
<1> QED
    BY <1>4 DEF GetNextSqrtPriceFromInput, GetNextSqrtPriceFromAmountARoundingUp, d

(* Selling token B never lowers it.                                          *)
LEMMA PriceRisesSellingB ==
    ASSUME NEW sqrt_price \in Nat, NEW liquidity \in Nat \ {0}, NEW amount \in Nat
    PROVE  LET next == GetNextSqrtPriceFromInput(sqrt_price, liquidity, amount, FALSE)
           IN  next \in Nat /\ next >= sqrt_price
<1>1. LIQUIDITY_SCALE \in Nat
    BY OneQAssumption DEF LIQUIDITY_SCALE
<1>2. MulDivDown(amount, LIQUIDITY_SCALE, liquidity) \in Nat
    BY <1>1, MulDivDownType
<1> QED
    BY <1>2 DEF GetNextSqrtPriceFromInput, GetNextSqrtPriceFromAmountBRoundingDown

LEMMA LiquidityScaleType == LIQUIDITY_SCALE \in Nat \ {0}
BY OneQAssumption DEF LIQUIDITY_SCALE

(* What the curve gives for an amount, and in which direction it moves.      *)
LEMMA TradeType ==
    ASSUME NEW sqrt_price \in Nat \ {0}, NEW liquidity \in Nat \ {0}, NEW amount \in Nat,
           NEW a_for_b \in BOOLEAN
    PROVE  LET traded == TradeOnCurve(sqrt_price, liquidity, amount, a_for_b)
           IN  /\ traded.next_sqrt_price \in Nat
               /\ traded.output_amount \in Nat
               /\ IF a_for_b THEN traded.next_sqrt_price <= sqrt_price
                             ELSE traded.next_sqrt_price >= sqrt_price
<1> DEFINE next == GetNextSqrtPriceFromInput(sqrt_price, liquidity, amount, a_for_b)
<1>1. CASE a_for_b
    <2>1. next \in Nat /\ next <= sqrt_price
        BY <1>1, PriceFallsSellingA
    <2> HIDE DEF next
    <2>2. GetDeltaAmountBDown(next, sqrt_price, liquidity) \in Nat
        BY <2>1, MulDivDownType, LiquidityScaleType DEF GetDeltaAmountBDown
    <2> QED
        BY <1>1, <2>1, <2>2 DEF TradeOnCurve, GetSwapResultFromAToB, next
<1>2. CASE ~a_for_b
    <2>1. next \in Nat /\ next >= sqrt_price
        BY <1>2, PriceRisesSellingB
    <2> HIDE DEF next
    <2>2. sqrt_price * next \in Nat \ {0}
        BY <2>1
    <2>3. GetDeltaAmountADown(sqrt_price, next, liquidity) \in Nat
        BY <2>1, <2>2, MulDivDownType DEF GetDeltaAmountADown
    <2> QED
        BY <1>2, <2>1, <2>3 DEF TradeOnCurve, GetSwapResultFromBToA, next
<1> QED
    BY <1>1, <1>2

(* Every swap that is priced gives natural amounts and fees and moves the    *)
(* price in the direction of the trade.                                      *)
THEOREM SwapResultType ==
    ASSUME NEW sqrt_price \in Nat \ {0}, NEW liquidity \in Nat \ {0},
           NEW dyn \in DynamicFeeState, NEW amount_in \in Nat, NEW a_for_b \in BOOLEAN,
           NEW has_referral \in BOOLEAN, NEW current_point \in Nat
    PROVE  LET result == GetSwapResult(sqrt_price, liquidity, dyn, amount_in, a_for_b,
                                       has_referral, current_point)
           IN  /\ result \in SwapResults
               /\ IF a_for_b THEN result.next_sqrt_price <= sqrt_price
                             ELSE result.next_sqrt_price >= sqrt_price
<1>1. CASE FeesOnInput(a_for_b)
    <2> DEFINE fees   == GetFeeOnAmount(dyn, amount_in, has_referral, current_point)
               traded == TradeOnCurve(sqrt_price, liquidity, fees.amount, a_for_b)
    <2>1. fees \in Fees
        BY FeeType
    <2> HIDE DEF fees
    <2>2. fees.amount \in Nat
        BY <2>1 DEF Fees
    <2>3. /\ traded.next_sqrt_price \in Nat /\ traded.output_amount \in Nat
          /\ IF a_for_b THEN traded.next_sqrt_price <= sqrt_price
                        ELSE traded.next_sqrt_price >= sqrt_price
        BY <2>2, TradeType
    <2> HIDE DEF traded
    <2>4. LET result == SwapResult(traded.next_sqrt_price, traded.output_amount, fees)
          IN  result \in SwapResults /\ result.next_sqrt_price = traded.next_sqrt_price
        BY <2>1, <2>3 DEF SwapResult, SwapResults, Fees
    <2> QED
        BY <1>1, <2>3, <2>4 DEF GetSwapResult, SwapNetInput, fees, traded
<1>2. CASE ~FeesOnInput(a_for_b)
    <2> DEFINE traded == TradeOnCurve(sqrt_price, liquidity, amount_in, a_for_b)
               fees   == GetFeeOnAmount(dyn, traded.output_amount, has_referral, current_point)
    <2>1. /\ traded.next_sqrt_price \in Nat /\ traded.output_amount \in Nat
          /\ IF a_for_b THEN traded.next_sqrt_price <= sqrt_price
                        ELSE traded.next_sqrt_price >= sqrt_price
        BY TradeType
    <2> HIDE DEF traded
    <2>2. fees \in Fees
        BY <2>1, FeeType
    <2> HIDE DEF fees
    <2>3. LET result == SwapResult(traded.next_sqrt_price, fees.amount, fees)
          IN  result \in SwapResults /\ result.next_sqrt_price = traded.next_sqrt_price
        BY <2>1, <2>2 DEF SwapResult, SwapResults, Fees
    <2> QED
        BY <1>2, <2>1, <2>3 DEF GetSwapResult, SwapGrossInput, SwapNetOutput, fees, traded
<1> QED
    BY <1>1, <1>2

(* A swap that passes the price check ends inside the range it started in.   *)
LEMMA PriceStaysInRange ==
    ASSUME NEW sqrt_price \in SqrtMinPrice .. SqrtMaxPrice, NEW next \in Nat,
           NEW a_for_b \in BOOLEAN, PriceAfterIsValid(next, a_for_b),
           IF a_for_b THEN next <= sqrt_price ELSE next >= sqrt_price
    PROVE  next \in SqrtMinPrice .. SqrtMaxPrice
BY PriceRangeAssumption DEF UsablePriceRange, PriceAfterIsValid
-----------------------------------------------------------------------------
(* What a trade leaves in the pool.  Prices and amounts are multiplied, so   *)
(* the steps below name each product.                                        *)

(* Selling token A: the tokens paid in are at least what the curve asks for  *)
(* moving the price to next.                                                 *)
LEMMA SellingAPaysCurve ==
    ASSUME NEW sqrt_price \in Nat \ {0}, NEW liquidity \in Nat \ {0}, NEW amount \in Nat
    PROVE  LET next == GetNextSqrtPriceFromInput(sqrt_price, liquidity, amount, TRUE)
           IN  liquidity * (sqrt_price - next) <= amount * (sqrt_price * next)
<1> DEFINE next == GetNextSqrtPriceFromInput(sqrt_price, liquidity, amount, TRUE)
<1>1. next \in Nat
    BY PriceFallsSellingA
<1> SUFFICES liquidity * (sqrt_price - next) <= amount * (sqrt_price * next)
    OBVIOUS
<1>2. CASE amount = 0
    <2>1. next = sqrt_price
        BY <1>2 DEF GetNextSqrtPriceFromInput, GetNextSqrtPriceFromAmountARoundingUp
    <2> HIDE DEF next
    <2>2. liquidity * (sqrt_price - next) = 0
        BY <2>1
    <2>3. amount * (sqrt_price * next) = 0
        BY <1>1, <1>2
    <2> QED BY <2>2, <2>3
<1>3. CASE amount # 0
    <2> DEFINE paid == amount * sqrt_price
               d == liquidity + paid
    <2>1. paid \in Nat
        OBVIOUS
    <2>2. d \in Nat \ {0}
        BY <2>1
    <2>3. next = MulDivUp(liquidity, sqrt_price, d)
        BY <1>3 DEF GetNextSqrtPriceFromInput, GetNextSqrtPriceFromAmountARoundingUp
    <2>4. next * d >= liquidity * sqrt_price
        <3> HIDE DEF d, next
        <3> QED BY <2>2, <2>3, MulDivUpCovers
    <2> HIDE DEF next
    <2>5. next * d = liquidity * next + next * paid
        <3> HIDE DEF paid
        <3> QED BY <1>1, <2>1
    <2>6. next * paid = amount * (sqrt_price * next)
        BY <1>1
    <2>7. liquidity * (sqrt_price - next) = liquidity * sqrt_price - liquidity * next
        BY <1>1
    <2>8. /\ liquidity * sqrt_price \in Int /\ liquidity * next \in Int
          /\ amount * (sqrt_price * next) \in Int
        BY <1>1
    <2> QED
        BY <2>4, <2>5, <2>6, <2>7, <2>8
<1> QED
    BY <1>2, <1>3

LEMMA SellingBPaysCurve ==
    ASSUME NEW sqrt_price \in Nat \ {0}, NEW liquidity \in Nat \ {0}, NEW amount \in Nat
    PROVE  LET next == GetNextSqrtPriceFromInput(sqrt_price, liquidity, amount, FALSE)
           IN  liquidity * (next - sqrt_price) <= amount * LIQUIDITY_SCALE
<1> DEFINE moved == MulDivDown(amount, LIQUIDITY_SCALE, liquidity)
<1>1. moved \in Nat /\ liquidity * moved <= amount * LIQUIDITY_SCALE
    BY MulDivDownType, MulDivDownCovered, LiquidityScaleType
<1>2. GetNextSqrtPriceFromInput(sqrt_price, liquidity, amount, FALSE) - sqrt_price = moved
    BY <1>1 DEF GetNextSqrtPriceFromInput, GetNextSqrtPriceFromAmountBRoundingDown
<1> QED
    BY <1>1, <1>2

(* A trade that moves the price to next pays in, and takes out, on the       *)
(* pool's side of the curve, in both tokens.                                 *)
FlowsCover(liquidity, sqrt_price, next, flow_a, flow_b) ==
    /\ flow_a * (sqrt_price * next) >= liquidity * (sqrt_price - next)
    /\ flow_b * LIQUIDITY_SCALE >= liquidity * (next - sqrt_price)

LEMMA TradeCoversCurve ==
    ASSUME NEW sqrt_price \in Nat \ {0}, NEW liquidity \in Nat \ {0}, NEW amount \in Nat,
           NEW a_for_b \in BOOLEAN
    PROVE  LET traded == TradeOnCurve(sqrt_price, liquidity, amount, a_for_b)
           IN  IF a_for_b THEN FlowsCover(liquidity, sqrt_price, traded.next_sqrt_price,
                                          amount, - traded.output_amount)
                          ELSE FlowsCover(liquidity, sqrt_price, traded.next_sqrt_price,
                                          - traded.output_amount, amount)
<1> DEFINE next == GetNextSqrtPriceFromInput(sqrt_price, liquidity, amount, a_for_b)
           traded == TradeOnCurve(sqrt_price, liquidity, amount, a_for_b)
<1>n. LIQUIDITY_SCALE \in Nat \ {0}
    BY LiquidityScaleType
<1>1. CASE a_for_b
    <2> DEFINE out == GetDeltaAmountBDown(next, sqrt_price, liquidity)
    <2>0. next = GetNextSqrtPriceFromInput(sqrt_price, liquidity, amount, TRUE)
        BY <1>1 DEF GetNextSqrtPriceFromInput
    <2>1. next \in Nat /\ sqrt_price - next \in Nat
        <3> HIDE DEF next
        <3>1. next \in Nat /\ next <= sqrt_price
            BY <2>0, PriceFallsSellingA
        <3> QED BY <3>1
    <2>2. liquidity * (sqrt_price - next) <= amount * (sqrt_price * next)
        <3> HIDE DEF next
        <3> QED BY <2>0, SellingAPaysCurve
    <2>3. traded.next_sqrt_price = next /\ traded.output_amount = out
        BY <1>1 DEF TradeOnCurve, GetSwapResultFromAToB
    <2> HIDE DEF traded
    <2> HIDE DEF next
    <2>4. out \in Nat /\ out * LIQUIDITY_SCALE <= liquidity * (sqrt_price - next)
        BY <1>n, <2>1, MulDivDownType, MulDivDownCovered DEF GetDeltaAmountBDown
    <2> HIDE DEF out
    <2>5. (- out) * LIQUIDITY_SCALE = - (out * LIQUIDITY_SCALE)
        BY <1>n, <2>4
    <2>6. liquidity * (next - sqrt_price) = - (liquidity * (sqrt_price - next))
        BY <2>1
    <2>7. /\ out * LIQUIDITY_SCALE \in Int /\ liquidity * (sqrt_price - next) \in Int
          /\ amount * (sqrt_price * next) \in Int
        BY <1>n, <2>1, <2>4
    <2>8. /\ amount * (sqrt_price * next) >= liquidity * (sqrt_price - next)
          /\ (- out) * LIQUIDITY_SCALE >= liquidity * (next - sqrt_price)
        BY <2>2, <2>4, <2>5, <2>6, <2>7
    <2>9. FlowsCover(liquidity, sqrt_price, traded.next_sqrt_price, amount, - traded.output_amount)
        BY <2>3, <2>8 DEF FlowsCover
    <2> QED
        BY <1>1, <2>9 DEF traded
<1>2. CASE ~a_for_b
    <2> DEFINE out == GetDeltaAmountADown(sqrt_price, next, liquidity)
    <2>0. next = GetNextSqrtPriceFromInput(sqrt_price, liquidity, amount, FALSE)
        BY <1>2 DEF GetNextSqrtPriceFromInput
    <2>1. next \in Nat /\ next - sqrt_price \in Nat
        <3> HIDE DEF next
        <3>1. next \in Nat /\ next >= sqrt_price
            BY <2>0, PriceRisesSellingB
        <3> QED BY <3>1
    <2>2. liquidity * (next - sqrt_price) <= amount * LIQUIDITY_SCALE
        <3> HIDE DEF next
        <3> QED BY <2>0, SellingBPaysCurve
    <2>3. traded.next_sqrt_price = next /\ traded.output_amount = out
        BY <1>2 DEF TradeOnCurve, GetSwapResultFromBToA
    <2> HIDE DEF traded
    <2>n. next \in Nat \ {0}
        BY <2>1
    <2> HIDE DEF next
    <2>d. sqrt_price * next \in Nat \ {0}
        BY <2>n
    <2>4. out \in Nat /\ out * (sqrt_price * next) <= liquidity * (next - sqrt_price)
        BY <2>d, <2>1, MulDivDownType, MulDivDownCovered DEF GetDeltaAmountADown
    <2> HIDE DEF out
    <2>5. (- out) * (sqrt_price * next) = - (out * (sqrt_price * next))
        BY <2>d, <2>4
    <2>6. liquidity * (sqrt_price - next) = - (liquidity * (next - sqrt_price))
        BY <2>1
    <2>7. /\ amount * LIQUIDITY_SCALE \in Int /\ liquidity * (next - sqrt_price) \in Int
          /\ out * (sqrt_price * next) \in Int
        BY <1>n, <2>1, <2>d, <2>4
    <2>8. /\ (- out) * (sqrt_price * next) >= liquidity * (sqrt_price - next)
          /\ amount * LIQUIDITY_SCALE >= liquidity * (next - sqrt_price)
        BY <2>2, <2>4, <2>5, <2>6, <2>7
    <2>9. FlowsCover(liquidity, sqrt_price, traded.next_sqrt_price, - traded.output_amount, amount)
        BY <2>3, <2>8 DEF FlowsCover
    <2> QED
        BY <1>2, <2>9 DEF traded
<1> QED
    BY <1>1, <1>2

(* What the two vaults gain by a swap: the input less the output and the     *)
(* referral fee; and what of it the fees keep.                               *)
GainA(amount_in, result, a_for_b) ==
    (IF a_for_b THEN amount_in ELSE - result.output_amount)
    - (IF FeeToken(a_for_b) = "a" THEN result.referral_fee ELSE 0)

GainB(amount_in, result, a_for_b) ==
    (IF a_for_b THEN - result.output_amount ELSE amount_in)
    - (IF FeeToken(a_for_b) = "b" THEN result.referral_fee ELSE 0)

KeptFees(result) == result.lp_fee + result.protocol_fee + result.partner_fee

(* What a swap leaves in the vaults beyond the fees it records covers the    *)
(* move along the curve.                                                     *)
GainsCover(liquidity, sqrt_price, amount_in, result, a_for_b) ==
    \E flow_a, flow_b \in Int :
        /\ FlowsCover(liquidity, sqrt_price, result.next_sqrt_price, flow_a, flow_b)
        /\ GainA(amount_in, result, a_for_b)
              = flow_a + (IF FeeToken(a_for_b) = "a" THEN KeptFees(result) ELSE 0)
        /\ GainB(amount_in, result, a_for_b)
              = flow_b + (IF FeeToken(a_for_b) = "b" THEN KeptFees(result) ELSE 0)

(* Whatever token the fee is taken in and from whichever side.               *)
LEMMA SwapCoversCurve ==
    ASSUME NEW sqrt_price \in Nat \ {0}, NEW liquidity \in Nat \ {0},
           NEW dyn \in DynamicFeeState, NEW amount_in \in Nat, NEW a_for_b \in BOOLEAN,
           NEW has_referral \in BOOLEAN, NEW current_point \in Nat
    PROVE  GainsCover(liquidity, sqrt_price, amount_in,
                      GetSwapResult(sqrt_price, liquidity, dyn, amount_in, a_for_b,
                                    has_referral, current_point), a_for_b)
<1> SUFFICES ASSUME NEW result,
                    result = GetSwapResult(sqrt_price, liquidity, dyn, amount_in, a_for_b,
                                           has_referral, current_point)
             PROVE  GainsCover(liquidity, sqrt_price, amount_in, result, a_for_b)
    OBVIOUS
<1>m. CollectFeeMode \in {"BothToken", "OnlyB"}
    BY FeeAssumption
<1>1. CASE FeesOnInput(a_for_b)
    <2> DEFINE fees   == GetFeeOnAmount(dyn, amount_in, has_referral, current_point)
               traded == TradeOnCurve(sqrt_price, liquidity, fees.amount, a_for_b)
    <2>0. ~a_for_b /\ FeeToken(a_for_b) = "b"
        BY <1>1 DEF FeesOnInput, FeeToken
    <2>1. fees \in Fees /\ WholeAmount(fees) = amount_in
        BY FeeShares
    <2>r. result = SwapResult(traded.next_sqrt_price, traded.output_amount, fees)
        BY <1>1 DEF GetSwapResult, SwapNetInput
    <2> HIDE DEF fees
    <2>2. fees.amount \in Nat
        BY <2>1 DEF Fees
    <2>3. /\ traded.output_amount \in Nat
          /\ FlowsCover(liquidity, sqrt_price, traded.next_sqrt_price,
                        - traded.output_amount, fees.amount)
        BY <2>0, <2>2, TradeType, TradeCoversCurve
    <2> HIDE DEF traded
    <2>4. /\ result.next_sqrt_price = traded.next_sqrt_price
          /\ result.output_amount = traded.output_amount
          /\ KeptFees(result) = fees.lp_fee + fees.protocol_fee + fees.partner_fee
          /\ result.referral_fee = fees.referral_fee
        BY <2>r DEF SwapResult, KeptFees
    <2>5. GainA(amount_in, result, a_for_b) = - traded.output_amount
        BY <2>0, <2>3, <2>4 DEF GainA
    <2>6. GainB(amount_in, result, a_for_b) = fees.amount + KeptFees(result)
        BY <2>0, <2>1, <2>4 DEF GainB, Fees, WholeAmount
    <2>7. /\ - traded.output_amount \in Int /\ fees.amount \in Int
          /\ - traded.output_amount = - traded.output_amount + 0
        BY <2>2, <2>3
    <2> QED
        BY <2>0, <2>3, <2>4, <2>5, <2>6, <2>7 DEF GainsCover
<1>2. CASE ~FeesOnInput(a_for_b)
    <2> DEFINE traded == TradeOnCurve(sqrt_price, liquidity, amount_in, a_for_b)
               fees   == GetFeeOnAmount(dyn, traded.output_amount, has_referral, current_point)
    <2>0. IF a_for_b THEN FeeToken(a_for_b) = "b" ELSE FeeToken(a_for_b) = "a"
        BY <1>2, <1>m DEF FeesOnInput, FeeToken
    <2>1. /\ traded.output_amount \in Nat
          /\ IF a_for_b THEN FlowsCover(liquidity, sqrt_price, traded.next_sqrt_price,
                                        amount_in, - traded.output_amount)
                        ELSE FlowsCover(liquidity, sqrt_price, traded.next_sqrt_price,
                                        - traded.output_amount, amount_in)
        BY TradeType, TradeCoversCurve
    <2>r. result = SwapResult(traded.next_sqrt_price, fees.amount, fees)
        BY <1>2 DEF GetSwapResult, SwapGrossInput, SwapNetOutput
    <2> HIDE DEF traded
    <2>2. fees \in Fees /\ WholeAmount(fees) = traded.output_amount
        BY <2>1, FeeShares
    <2> HIDE DEF fees
    <2>3. /\ result.next_sqrt_price = traded.next_sqrt_price
          /\ result.output_amount = fees.amount
          /\ KeptFees(result) = fees.lp_fee + fees.protocol_fee + fees.partner_fee
          /\ result.referral_fee = fees.referral_fee
        BY <2>r DEF SwapResult, KeptFees
    <2>4. - result.output_amount - result.referral_fee
            = - traded.output_amount + KeptFees(result)
        BY <2>2, <2>3 DEF Fees, WholeAmount
    <2>5. - traded.output_amount \in Int /\ amount_in = amount_in + 0 /\ amount_in = amount_in - 0
        BY <2>1
    <2>6. CASE a_for_b
        <3>0. a_for_b = TRUE /\ FeeToken(a_for_b) = "b"
            BY <2>0, <2>6
        <3>1. GainA(amount_in, result, a_for_b) = amount_in + 0
            BY <2>5, <3>0 DEF GainA
        <3>2. GainB(amount_in, result, a_for_b) = - traded.output_amount + KeptFees(result)
            BY <2>0, <2>4, <2>6 DEF GainB
        <3> QED
            BY <2>1, <2>3, <2>5, <3>0, <3>1, <3>2 DEF GainsCover
    <2>7. CASE ~a_for_b
        <3>1. GainB(amount_in, result, a_for_b) = amount_in + 0
            BY <2>0, <2>7 DEF GainB
        <3>2. GainA(amount_in, result, a_for_b) = - traded.output_amount + KeptFees(result)
            BY <2>0, <2>4, <2>7 DEF GainA
        <3> QED
            BY <2>0, <2>1, <2>3, <2>5, <2>7, <3>1, <3>2 DEF GainsCover
    <2> QED
        BY <2>6, <2>7
<1> QED
    BY <1>1, <1>2
-----------------------------------------------------------------------------
(* Swapping there and back.  A fee only lowers what reaches the curve and    *)
(* what leaves it.                                                           *)
LEMMA SwapTradesLess ==
    ASSUME NEW sqrt_price \in Nat \ {0}, NEW liquidity \in Nat \ {0},
           NEW dyn \in DynamicFeeState, NEW amount_in \in Nat, NEW a_for_b \in BOOLEAN,
           NEW has_referral \in BOOLEAN, NEW current_point \in Nat, NEW result,
           result = GetSwapResult(sqrt_price, liquidity, dyn, amount_in, a_for_b,
                                  has_referral, current_point)
    PROVE  \E net, out \in Nat :
              /\ net <= amount_in
              /\ result.output_amount \in Nat /\ result.output_amount <= out
              /\ result.next_sqrt_price \in Nat
              /\ IF a_for_b
                 THEN FlowsCover(liquidity, sqrt_price, result.next_sqrt_price, net, - out)
                 ELSE FlowsCover(liquidity, sqrt_price, result.next_sqrt_price, - out, net)
<1>1. CASE FeesOnInput(a_for_b)
    <2> DEFINE fees   == GetFeeOnAmount(dyn, amount_in, has_referral, current_point)
               traded == TradeOnCurve(sqrt_price, liquidity, fees.amount, a_for_b)
    <2>1. fees \in Fees /\ WholeAmount(fees) = amount_in
        BY FeeShares
    <2>r. result = SwapResult(traded.next_sqrt_price, traded.output_amount, fees)
        BY <1>1 DEF GetSwapResult, SwapNetInput
    <2> HIDE DEF fees
    <2>2. fees.amount \in Nat /\ fees.amount <= amount_in
        BY <2>1 DEF Fees, WholeAmount
    <2>3. /\ traded.output_amount \in Nat /\ traded.next_sqrt_price \in Nat
          /\ IF a_for_b THEN FlowsCover(liquidity, sqrt_price, traded.next_sqrt_price,
                                        fees.amount, - traded.output_amount)
                        ELSE FlowsCover(liquidity, sqrt_price, traded.next_sqrt_price,
                                        - traded.output_amount, fees.amount)
        BY <2>2, TradeType, TradeCoversCurve
    <2> HIDE DEF traded
    <2>4. /\ result.next_sqrt_price = traded.next_sqrt_price
          /\ result.output_amount = traded.output_amount
          /\ traded.output_amount <= traded.output_amount
        BY <2>3, <2>r DEF SwapResult
    <2> fees.amount \in Nat /\ traded.output_amount \in Nat
        BY <2>2, <2>3
    <2> WITNESS fees.amount \in Nat, traded.output_amount \in Nat
    <2> QED
        BY <2>2, <2>3, <2>4
<1>2. CASE ~FeesOnInput(a_for_b)
    <2> DEFINE traded == TradeOnCurve(sqrt_price, liquidity, amount_in, a_for_b)
               fees   == GetFeeOnAmount(dyn, traded.output_amount, has_referral, current_point)
    <2>1. /\ traded.output_amount \in Nat /\ traded.next_sqrt_price \in Nat
          /\ IF a_for_b THEN FlowsCover(liquidity, sqrt_price, traded.next_sqrt_price,
                                        amount_in, - traded.output_amount)
                        ELSE FlowsCover(liquidity, sqrt_price, traded.next_sqrt_price,
                                        - traded.output_amount, amount_in)
        BY TradeType, TradeCoversCurve
    <2>r. result = SwapResult(traded.next_sqrt_price, fees.amount, fees)
        BY <1>2 DEF GetSwapResult, SwapGrossInput, SwapNetOutput
    <2> HIDE DEF traded
    <2>2. fees \in Fees /\ WholeAmount(fees) = traded.output_amount
        BY <2>1, FeeShares
    <2> HIDE DEF fees
    <2>3. /\ result.next_sqrt_price = traded.next_sqrt_price
          /\ result.output_amount = fees.amount
        BY <2>r DEF SwapResult
    <2>4. fees.amount \in Nat /\ fees.amount <= traded.output_amount /\ amount_in <= amount_in
        BY <2>2 DEF Fees, WholeAmount
    <2> traded.output_amount \in Nat
        BY <2>1
    <2> WITNESS amount_in \in Nat, traded.output_amount \in Nat
    <2> QED
        BY <2>1, <2>3, <2>4
<1> QED
    BY <1>1, <1>2

(* From price P to N and back to at most P, or from P to N and back to at     *)
(* least P: both legs bounded by the curve.                                  *)
LEMMA ThereAndBackSellingA ==
    ASSUME NEW L \in Nat \ {0}, NEW P \in Nat \ {0}, NEW N \in Nat, NEW R \in Nat,
           NEW x \in Nat, NEW out \in Nat, NEW y \in Nat, NEW back \in Nat,
           FlowsCover(L, P, N, x, - out), y <= out, FlowsCover(L, N, R, - back, y)
    PROVE  back <= x
<1> DEFINE S == LIQUIDITY_SCALE
<1>s. S \in Nat \ {0}
    BY LiquidityScaleType
<1> HIDE DEF S
<1>1. /\ x * (P * N) >= L * (P - N) /\ (- out) * S >= L * (N - P)
      /\ (- back) * (N * R) >= L * (N - R) /\ y * S >= L * (R - N)
    BY DEF FlowsCover, S
<1>2. N # 0
    <2> SUFFICES ASSUME N = 0 PROVE FALSE
        OBVIOUS
    <2>1. x * (P * N) = 0 /\ L * (P - N) = L * P
        OBVIOUS
    <2>2. L * P > 0
        OBVIOUS
    <2> QED
        BY <1>1, <2>1, <2>2
<1>3. R <= P
    <2>1. y * S <= out * S
        BY <1>s, ProductsOrdered
    <2>2. (- out) * S = - (out * S) /\ L * (N - P) = L * N - L * P /\ L * (R - N) = L * R - L * N
        BY <1>s
    <2>3. /\ y * S \in Int /\ out * S \in Int /\ L * N \in Int /\ L * P \in Int /\ L * R \in Int
        BY <1>s
    <2>4. L * R <= L * P
        BY <1>1, <2>1, <2>2, <2>3
    <2> QED
        BY <2>4, FactorDrops
<1>4. CASE R = 0
    <2>1. (- back) * (N * R) = 0 /\ L * (N - R) = L * N
        BY <1>4
    <2>2. L * N > 0
        BY <1>2
    <2> QED
        BY <1>1, <2>1, <2>2
<1>5. CASE R # 0
    <2> DEFINE K == P * (N * R)
    <2>1. K \in Nat \ {0}
        <3>1. N * R \in Nat \ {0}
            BY <1>2, <1>5
        <3> QED BY <3>1
    <2>2. P * (L * (N - R)) >= R * (L * (N - P))
        <3>1. L * N \in Nat
            OBVIOUS
        <3>2. (L * N) * R <= (L * N) * P
            BY <1>3, <3>1, ProductsOrdered
        <3>3. P * (L * (N - R)) = (L * N) * P - (L * P) * R
            OBVIOUS
        <3>4. R * (L * (N - P)) = (L * N) * R - (L * P) * R
            OBVIOUS
        <3>5. (L * N) * R \in Int /\ (L * N) * P \in Int /\ (L * P) * R \in Int
            OBVIOUS
        <3> QED
            BY <3>2, <3>3, <3>4, <3>5
    <2>3. P * ((- back) * (N * R)) >= P * (L * (N - R))
        <3>1. (- back) * (N * R) \in Int /\ L * (N - R) \in Int
            OBVIOUS
        <3> QED
            BY <1>1, <3>1, ProductsOrdered
    <2>4. R * (x * (P * N)) >= R * (L * (P - N))
        <3>1. x * (P * N) \in Int /\ L * (P - N) \in Int
            OBVIOUS
        <3> QED
            BY <1>1, <3>1, ProductsOrdered
    <2>5. R * (L * (P - N)) = - (R * (L * (N - P)))
        OBVIOUS
    <2>6. P * ((- back) * (N * R)) = - (K * back)
        OBVIOUS
    <2>7. R * (x * (P * N)) = K * x
        OBVIOUS
    <2>8. /\ K * back \in Int /\ K * x \in Int /\ P * (L * (N - R)) \in Int
          /\ R * (L * (N - P)) \in Int
        BY <2>1
    <2>9. K * back <= K * x
        BY <2>2, <2>3, <2>4, <2>5, <2>6, <2>7, <2>8
    <2> HIDE DEF K
    <2> QED
        BY <2>1, <2>9, FactorDrops
<1> QED
    BY <1>4, <1>5

LEMMA ThereAndBackSellingB ==
    ASSUME NEW L \in Nat \ {0}, NEW P \in Nat \ {0}, NEW N \in Nat, NEW R \in Nat, N >= P,
           NEW x \in Nat, NEW out \in Nat, NEW y \in Nat, NEW back \in Nat,
           FlowsCover(L, P, N, - out, x), y <= out, FlowsCover(L, N, R, y, - back)
    PROVE  back <= x
<1> DEFINE S == LIQUIDITY_SCALE
<1>s. S \in Nat \ {0}
    BY LiquidityScaleType
<1> HIDE DEF S
<1>1. /\ (- out) * (P * N) >= L * (P - N) /\ x * S >= L * (N - P)
      /\ y * (N * R) >= L * (N - R) /\ (- back) * S >= L * (R - N)
    BY DEF FlowsCover, S
<1>2. P <= R
    <2>1. P * (y * (N * R)) >= P * (L * (N - R))
        <3>1. y * (N * R) \in Int /\ L * (N - R) \in Int
            OBVIOUS
        <3> QED
            BY <1>1, <3>1, ProductsOrdered
    <2>2. R * ((- out) * (P * N)) >= R * (L * (P - N))
        <3>1. (- out) * (P * N) \in Int /\ L * (P - N) \in Int
            OBVIOUS
        <3> QED
            BY <1>1, <3>1, ProductsOrdered
    <2> DEFINE K == P * (N * R)
    <2>3. K \in Nat
        OBVIOUS
    <2>4. P * (y * (N * R)) = y * K /\ R * ((- out) * (P * N)) = - (out * K)
        OBVIOUS
    <2>5. y * K <= out * K
        <3> HIDE DEF K
        <3> QED BY <2>3, ProductsOrdered
    <2>6. P * (L * (N - R)) = (L * N) * P - (L * P) * R
        OBVIOUS
    <2>7. R * (L * (P - N)) = (L * P) * R - (L * N) * R
        OBVIOUS
    <2>8. /\ (L * N) * P \in Int /\ (L * P) * R \in Int /\ (L * N) * R \in Int
          /\ y * K \in Int /\ out * K \in Int
        BY <2>3
    <2>9. (L * N) * P <= (L * N) * R
        <3> HIDE DEF K
        <3> QED BY <2>1, <2>2, <2>4, <2>5, <2>6, <2>7, <2>8
    <2>10. L * N \in Nat \ {0}
        OBVIOUS
    <2> DEFINE k == L * N
    <2> HIDE DEF k
    <2>11. k \in Nat \ {0} /\ k * P <= k * R
        BY <2>9, <2>10 DEF k
    <2> QED
        BY <2>11, FactorDrops
<1>3. L * P <= L * R
    BY <1>2, ProductsOrdered
<1>4. /\ L * (N - P) = L * N - L * P /\ L * (R - N) = L * R - L * N
      /\ (- back) * S = - (S * back) /\ x * S = S * x
    BY <1>s
<1>5. L * N \in Int /\ L * P \in Int /\ L * R \in Int /\ S * back \in Int /\ S * x \in Int
    BY <1>s
<1>6. S * back <= S * x
    BY <1>1, <1>3, <1>4, <1>5
<1> QED
    BY <1>s, <1>6, FactorDrops

(* A swap's output swapped back at once, at the price the swap left, gives   *)
(* at most the input, for every price, liquidity, amount, fee and volatility *)
(* state: get_swap_result rounds against the trader in both directions.      *)
THEOREM ThereAndBackNeverProfits ==
    ASSUME NEW sqrt_price \in Nat \ {0}, NEW liquidity \in Nat \ {0},
           NEW dyn \in DynamicFeeState, NEW amount_in \in Nat, NEW a_for_b \in BOOLEAN,
           NEW has_referral \in BOOLEAN, NEW current_point \in Nat
    PROVE  LET first == GetSwapResult(sqrt_price, liquidity, dyn, amount_in, a_for_b,
                                      has_referral, current_point)
               second == GetSwapResult(first.next_sqrt_price, liquidity, dyn,
                                       first.output_amount, ~a_for_b, has_referral, current_point)
           IN  second.output_amount <= amount_in
<1> DEFINE first == GetSwapResult(sqrt_price, liquidity, dyn, amount_in, a_for_b,
                                  has_referral, current_point)
           second == GetSwapResult(first.next_sqrt_price, liquidity, dyn, first.output_amount,
                                   ~a_for_b, has_referral, current_point)
<1> SUFFICES second.output_amount <= amount_in
    OBVIOUS
<1>1. /\ first.next_sqrt_price \in Nat /\ first.output_amount \in Nat
      /\ IF a_for_b THEN first.next_sqrt_price <= sqrt_price
                    ELSE first.next_sqrt_price >= sqrt_price
    BY SwapResultType DEF SwapResults
<1> DEFINE net_of(result, next, net, out, direction) ==
              /\ result.output_amount \in Nat /\ result.output_amount <= out
              /\ result.next_sqrt_price \in Nat
              /\ IF direction THEN FlowsCover(liquidity, next, result.next_sqrt_price, net, - out)
                              ELSE FlowsCover(liquidity, next, result.next_sqrt_price, - out, net)
<1>2. PICK net, out \in Nat : net <= amount_in /\ net_of(first, sqrt_price, net, out, a_for_b)
    <2>1. \A result : result = first =>
            \E net, out \in Nat : net <= amount_in /\ net_of(result, sqrt_price, net, out, a_for_b)
        <3> HIDE DEF net_of
        <3> QED BY SwapTradesLess DEF net_of
    <2> QED
        BY <2>1
<1> HIDE DEF first
<1>3. first.next_sqrt_price # 0
    <2> SUFFICES ASSUME first.next_sqrt_price = 0 PROVE FALSE
        OBVIOUS
    <2>1. a_for_b /\ FlowsCover(liquidity, sqrt_price, 0, net, - out)
        BY <1>1, <1>2
    <2>2. net * (sqrt_price * 0) >= liquidity * (sqrt_price - 0)
        BY <2>1 DEF FlowsCover
    <2>3. net * (sqrt_price * 0) = 0 /\ liquidity * (sqrt_price - 0) = liquidity * sqrt_price
        BY <1>2
    <2>4. liquidity * sqrt_price > 0
        OBVIOUS
    <2> QED
        BY <2>2, <2>3, <2>4
<1>4. PICK y, back \in Nat :
        /\ y <= first.output_amount
        /\ net_of(second, first.next_sqrt_price, y, back, ~a_for_b)
    <2>1. /\ first.next_sqrt_price \in Nat \ {0} /\ first.output_amount \in Nat
          /\ (~a_for_b) \in BOOLEAN
        BY <1>1, <1>3
    <2>2. \A result : result = second =>
            \E net_2, out_2 \in Nat :
                /\ net_2 <= first.output_amount
                /\ net_of(result, first.next_sqrt_price, net_2, out_2, ~a_for_b)
        BY <2>1, SwapTradesLess
    <2> QED
        BY <2>2
<1> HIDE DEF second
<1>5. /\ net <= amount_in /\ first.output_amount <= out /\ y <= first.output_amount
      /\ second.output_amount <= back /\ second.output_amount \in Nat
      /\ second.next_sqrt_price \in Nat
    BY <1>2, <1>4
<1>6. y <= out
    BY <1>1, <1>5
<1>7. back <= net
    <2>1. CASE a_for_b
        <3>1. /\ FlowsCover(liquidity, sqrt_price, first.next_sqrt_price, net, - out)
              /\ FlowsCover(liquidity, first.next_sqrt_price, second.next_sqrt_price, - back, y)
            BY <1>2, <1>4, <2>1
        <3> QED
            BY <1>1, <1>5, <1>6, <3>1, ThereAndBackSellingA
    <2>2. CASE ~a_for_b
        <3>1. /\ FlowsCover(liquidity, sqrt_price, first.next_sqrt_price, - out, net)
              /\ FlowsCover(liquidity, first.next_sqrt_price, second.next_sqrt_price, y, - back)
            BY <1>2, <1>4, <2>2
        <3>2. first.next_sqrt_price >= sqrt_price
            BY <1>1, <2>2
        <3> QED
            BY <1>1, <1>5, <1>6, <3>1, <3>2, ThereAndBackSellingB
    <2> QED
        BY <2>1, <2>2
<1> QED
    BY <1>5, <1>7
-----------------------------------------------------------------------------
(* The fee of a swap depends on the volatility accumulator alone, which      *)
(* update_pre_swap leaves as it is: a quote that skips it (rust-sdk) gives    *)
(* what the swap gives, for every pool and however stale its references.     *)
THEOREM QuoteSkipsPreSwap ==
    ASSUME NEW dyn \in DynamicFeeState, NEW sqrt_price \in Nat, NEW now \in Nat,
           NEW liquidity, NEW amount_in, NEW a_for_b, NEW has_referral
    PROVE  GetSwapResult(sqrt_price, liquidity, dyn, amount_in, a_for_b, has_referral, now)
           = GetSwapResult(sqrt_price, liquidity, UpdatePreSwap(dyn, sqrt_price, now), amount_in,
                           a_for_b, has_referral, now)
<1> DEFINE pre == UpdatePreSwap(dyn, sqrt_price, now)
<1>1. pre.volatility_accumulator = dyn.volatility_accumulator
    BY DEF UpdatePreSwap, UpdateReferences, DynamicFeeState
<1> HIDE DEF pre
<1>2. GetVariableFee(pre) = GetVariableFee(dyn)
    BY <1>1 DEF GetVariableFee
<1>3. \A amount : GetFeeOnAmount(pre, amount, has_referral, now)
                    = GetFeeOnAmount(dyn, amount, has_referral, now)
    BY <1>2 DEF GetFeeOnAmount, GetTotalTradingFee
<1>4. GetSwapResult(sqrt_price, liquidity, dyn, amount_in, a_for_b, has_referral, now)
      = GetSwapResult(sqrt_price, liquidity, pre, amount_in, a_for_b, has_referral, now)
    BY <1>3 DEF GetSwapResult, SwapGrossInput
<1> QED
    BY <1>4 DEF pre
=============================================================================
