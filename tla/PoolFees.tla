------------------------------ MODULE PoolFees ------------------------------
(***************************************************************************)
(* The trading fee of a cp-amm pool (state/fee.rs): the base fee, the       *)
(* volatility-driven dynamic fee, the split of a fee between LPs, protocol, *)
(* partner and referrer, and the token a fee is taken in.  The fee          *)
(* parameters of the pool are CONSTANTS, they never change after the pool    *)
(* was created; the volatility state is a record passed to and returned by   *)
(* the operators.                                                           *)
(***************************************************************************)
EXTENDS FeeParameters

CONSTANTS
    VARIABLE_FEE_SCALE,   \* 100_000_000_000, scales a variable fee to the denominator
    ProtocolFeePercent, ReferralFeePercent, PartnerFeePercent,
    HasPartner,           \* the pool has a partner
    CollectFeeMode,       \* "BothToken" or "OnlyB"
    BaseFee,              \* cliff_fee_numerator, mode, number_of_period, period_frequency, reduction_factor
    DynamicFee,           \* enabled, bin_step, bin_step_q, filter_period, decay_period, reduction_factor, max_volatility_accumulator, variable_fee_control
    ActivationPoint

Token == {"a", "b"}

(* The fees are those of a pool that PoolFactory creates.                    *)
ASSUME FeeAssumption ==
    /\ VARIABLE_FEE_SCALE \in Nat \ {0}
    /\ {ProtocolFeePercent, ReferralFeePercent, PartnerFeePercent} \subseteq 0 .. 50
    /\ HasPartner \in BOOLEAN
    /\ CollectFeeMode \in {"BothToken", "OnlyB"}
    /\ ActivationPoint \in Nat
    /\ UsableFees(BaseFee, DynamicFee)

GetCurrentBaseFeeNumerator(current_point) ==
    GetBaseFeeNumerator(BaseFee, ActivationPoint, current_point)
-----------------------------------------------------------------------------
DynamicFeeState ==
    [last_update_timestamp : Nat, sqrt_price_reference : Nat,
     volatility_accumulator : Nat, volatility_reference : Nat]

InitialDynamicFeeState ==
    [last_update_timestamp |-> 0, sqrt_price_reference |-> 0,
     volatility_accumulator |-> 0, volatility_reference |-> 0]

(* 1 + bin_step * delta_bin approximates the ratio of the two prices.        *)
GetDeltaBinId(sqrt_price_a, sqrt_price_b) ==
    LET upper == IF sqrt_price_a > sqrt_price_b THEN sqrt_price_a ELSE sqrt_price_b
        lower == IF sqrt_price_a > sqrt_price_b THEN sqrt_price_b ELSE sqrt_price_a
    IN  2 * ((MulDivDown(upper, ONE_Q, lower) - ONE_Q) \div DynamicFee.bin_step_q)

(* Mutant: the reference price is set only once the volatility has decayed.  *)
UpdateReferences_Late(dyn, sqrt_price_current, current_timestamp) ==
    IF current_timestamp - dyn.last_update_timestamp >= DynamicFee.decay_period
    THEN [dyn EXCEPT !.sqrt_price_reference = sqrt_price_current, !.volatility_reference = 0]
    ELSE dyn

(* Mutant: the accumulator decays with the reference.                        *)
UpdateReferences_Decaying(dyn, sqrt_price_current, current_timestamp) ==
    IF current_timestamp - dyn.last_update_timestamp >= DynamicFee.filter_period
    THEN [dyn EXCEPT !.sqrt_price_reference = sqrt_price_current,
                     !.volatility_accumulator = 0]
    ELSE dyn

UpdateReferences(dyn, sqrt_price_current, current_timestamp) ==
    LET elapsed == current_timestamp - dyn.last_update_timestamp
        decayed == MulDivDown(dyn.volatility_accumulator, DynamicFee.reduction_factor, BASIS_POINT_MAX)
    IN  IF elapsed >= DynamicFee.filter_period
        THEN [dyn EXCEPT !.sqrt_price_reference = sqrt_price_current,
                         !.volatility_reference =
                            IF elapsed < DynamicFee.decay_period THEN decayed ELSE 0]
        ELSE dyn

UpdateVolatilityAccumulator(dyn, sqrt_price) ==
    [dyn EXCEPT !.volatility_accumulator =
        CapAt(dyn.volatility_reference
                + GetDeltaBinId(sqrt_price, dyn.sqrt_price_reference) * BASIS_POINT_MAX,
              DynamicFee.max_volatility_accumulator)]

UpdatePreSwap(dyn, sqrt_price, current_timestamp) ==
    IF DynamicFee.enabled THEN UpdateReferences(dyn, sqrt_price, current_timestamp) ELSE dyn

(* The timestamp moves only when the swap crossed a bin.                     *)
UpdatePostSwap(dyn, old_sqrt_price, new_sqrt_price, current_timestamp) ==
    LET updated == UpdateVolatilityAccumulator(dyn, new_sqrt_price)
        crossed == GetDeltaBinId(old_sqrt_price, new_sqrt_price) > 0
    IN  CASE ~DynamicFee.enabled -> dyn
          [] DynamicFee.enabled /\ crossed ->
                [updated EXCEPT !.last_update_timestamp = current_timestamp]
          [] DynamicFee.enabled /\ ~crossed -> updated

GetVariableFee(dyn) ==
    LET vfa_bin == dyn.volatility_accumulator * DynamicFee.bin_step
    IN  IF DynamicFee.enabled
        THEN (vfa_bin * vfa_bin * DynamicFee.variable_fee_control + VARIABLE_FEE_SCALE - 1)
                \div VARIABLE_FEE_SCALE
        ELSE 0
-----------------------------------------------------------------------------
GetTotalTradingFee(dyn, current_point) ==
    GetVariableFee(dyn) + GetCurrentBaseFeeNumerator(current_point)

(* The shares of a fee, rounded down: what the protocol share loses to       *)
(* rounding stays with the LPs, what the referral and the partner lose stays *)
(* with the protocol.                                                        *)
SplitFee(amount, fee, protocol, referral, partner) ==
    [amount |-> amount - fee, lp_fee |-> fee - protocol,
     protocol_fee |-> protocol - referral - partner,
     partner_fee |-> partner, referral_fee |-> referral]

SplitProtocolFee(amount, fee, protocol, referral) ==
    SplitFee(amount, fee, protocol, referral,
             IF HasPartner /\ PartnerFeePercent > 0
             THEN MulDivDown(protocol - referral, PartnerFeePercent, 100) ELSE 0)

SplitTradingFee(amount, fee, protocol, has_referral) ==
    SplitProtocolFee(amount, fee, protocol,
                     IF has_referral THEN MulDivDown(protocol, ReferralFeePercent, 100) ELSE 0)

ChargeFee(amount, fee, has_referral) ==
    SplitTradingFee(amount, fee, MulDivDown(fee, ProtocolFeePercent, 100), has_referral)

(* The fee on amount, capped at the maximum fee and rounded up, taken from   *)
(* amount and shared out.                                                    *)
GetFeeOnAmount(dyn, amount, has_referral, current_point) ==
    ChargeFee(amount,
              MulDivUp(amount, CapAt(GetTotalTradingFee(dyn, current_point), MAX_FEE_NUMERATOR),
                       FEE_DENOMINATOR),
              has_referral)

FeesOnInput(a_for_b) == CollectFeeMode = "OnlyB" /\ ~a_for_b

FeeToken(a_for_b) == IF CollectFeeMode = "BothToken" /\ ~a_for_b THEN "a" ELSE "b"
=============================================================================
