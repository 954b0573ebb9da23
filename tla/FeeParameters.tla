--------------------------- MODULE FeeParameters ---------------------------
(***************************************************************************)
(* The base fee of a cp-amm pool (params/fee_parameters.rs, state/fee.rs,   *)
(* math/fee_math.rs): its parameters, what validate admits, and the linear  *)
(* and exponential schedulers that lower it with time.                      *)
(***************************************************************************)
EXTENDS Curve

CONSTANTS
    FEE_DENOMINATOR,      \* 1_000_000_000
    MIN_FEE_NUMERATOR,    \* 100_000: a fee is at least one basis point
    MAX_FEE_NUMERATOR,    \* 500_000_000: a fee is at most 50 percent
    BASIS_POINT_MAX,      \* 10_000
    EXPONENT_BITS         \* 19, the bits of an exponent that pow looks at

ASSUME FeeScaleAssumption ==
    /\ FEE_DENOMINATOR \in Nat \ {0}
    /\ MIN_FEE_NUMERATOR \in Nat \ {0}
    /\ MAX_FEE_NUMERATOR \in Nat /\ MAX_FEE_NUMERATOR < FEE_DENOMINATOR
    /\ BASIS_POINT_MAX \in Nat \ {0}
    /\ EXPONENT_BITS \in Nat

BaseFeeParameters ==
    [cliff_fee_numerator : Nat, mode : {"Linear", "Exponential"},
     number_of_period : Nat, period_frequency : Nat, reduction_factor : Nat]

(* Without a dynamic fee all fields are zero.                                *)
DynamicFeeParameters ==
    [enabled : BOOLEAN, bin_step : Nat, bin_step_q : Nat, filter_period : Nat, decay_period : Nat,
     reduction_factor : Nat, max_volatility_accumulator : Nat, variable_fee_control : Nat]
-----------------------------------------------------------------------------
(* Mutant: the test of the exponent's highest bit is missing.                *)
Pow_WithoutTopBit(base, exp) ==
    LET powers[k \in 0 .. EXPONENT_BITS] ==
            IF k = 0 THEN [result |-> ONE_Q, squared |-> base]
            ELSE LET prev == powers[k - 1]
                 IN  [result  |-> IF (exp \div 2^(k - 1)) % 2 = 1 /\ k < EXPONENT_BITS
                                  THEN MulDivDown(prev.result, prev.squared, ONE_Q)
                                  ELSE prev.result,
                      squared |-> MulDivDown(prev.squared, prev.squared, ONE_Q)]
    IN  powers[EXPONENT_BITS].result

(* Mutant: the squares are rounded up.                                       *)
Pow_RoundingUp(base, exp) ==
    LET powers[k \in 0 .. EXPONENT_BITS] ==
            IF k = 0 THEN [result |-> ONE_Q, squared |-> base]
            ELSE LET prev == powers[k - 1]
                 IN  [result  |-> IF (exp \div 2^(k - 1)) % 2 = 1
                                  THEN MulDivDown(prev.result, prev.squared, ONE_Q)
                                  ELSE prev.result,
                      squared |-> MulDivUp(prev.squared, prev.squared, ONE_Q)]
    IN  powers[EXPONENT_BITS].result

(* base^exp in fixed point by squaring, one bit of the exponent per step and *)
(* a truncation per multiplication.  base is below ONE_Q (the caller passes  *)
(* 1 - reduction), so the inversions of the code are never taken.  Where the *)
(* code gives up because nothing is left, the result is 0.                   *)
Pow(base, exp) ==
    LET powers[k \in 0 .. EXPONENT_BITS] ==
            IF k = 0 THEN [result |-> ONE_Q, squared |-> base]
            ELSE LET prev == powers[k - 1]
                 IN  [result  |-> IF (exp \div 2^(k - 1)) % 2 = 1
                                  THEN MulDivDown(prev.result, prev.squared, ONE_Q)
                                  ELSE prev.result,
                      squared |-> MulDivDown(prev.squared, prev.squared, ONE_Q)]
    IN  powers[EXPONENT_BITS].result

(* 1 - reduction_factor / 10_000, in fixed point.                            *)
ReductionBase(reduction_factor) ==
    ONE_Q - MulDivDown(reduction_factor, ONE_Q, BASIS_POINT_MAX)

GetFeeInPeriod(cliff_fee_numerator, reduction_factor, passed_period) ==
    IF reduction_factor = 0 THEN cliff_fee_numerator
    ELSE MulDivDown(Pow(ReductionBase(reduction_factor), passed_period),
                    cliff_fee_numerator, ONE_Q)

(* The subtractions are checked: a fee below zero fails validation too.      *)
GetMinBaseFeeNumerator(base_fee) ==
    IF base_fee.mode = "Linear"
    THEN base_fee.cliff_fee_numerator - base_fee.reduction_factor * base_fee.number_of_period
    ELSE GetFeeInPeriod(base_fee.cliff_fee_numerator, base_fee.reduction_factor,
                        base_fee.number_of_period)

(* BaseFeeParameters::validate.  It looks at the first and the last period   *)
(* only.  A reduction above 100 percent fails in get_fee_in_period; the      *)
(* resolution and the width of the period count hold of the program's        *)
(* constants.                                                                *)
ValidBaseFee(base_fee) ==
    /\ base_fee.mode = "Exponential" =>
          /\ base_fee.reduction_factor <= BASIS_POINT_MAX
          /\ base_fee.reduction_factor # 0 => base_fee.reduction_factor * ONE_Q >= BASIS_POINT_MAX
          /\ base_fee.number_of_period < 2^EXPONENT_BITS
    /\ GetMinBaseFeeNumerator(base_fee) >= MIN_FEE_NUMERATOR
    /\ base_fee.cliff_fee_numerator <= MAX_FEE_NUMERATOR

(* What the fee code relies on in a pool.  A dynamic fee divides by          *)
(* bin_step_q, and its volatility is filtered before it decays.              *)
UsableFees(base_fee, dynamic_fee) ==
    /\ base_fee \in BaseFeeParameters
    /\ ValidBaseFee(base_fee)
    /\ dynamic_fee \in DynamicFeeParameters
    /\ dynamic_fee.enabled =>
          /\ dynamic_fee.bin_step_q > 0
          /\ dynamic_fee.filter_period < dynamic_fee.decay_period
          /\ dynamic_fee.reduction_factor <= BASIS_POINT_MAX
-----------------------------------------------------------------------------
(* Mutant: the schedule does not stop at its last period.                    *)
PassedPeriod_Uncapped(base_fee, activation_point, current_point) ==
    IF current_point < activation_point THEN base_fee.number_of_period
    ELSE (current_point - activation_point) \div base_fee.period_frequency

(* Before the activation point only the alpha vault trades: minimum fee.     *)
PassedPeriod(base_fee, activation_point, current_point) ==
    IF current_point < activation_point THEN base_fee.number_of_period
    ELSE CapAt((current_point - activation_point) \div base_fee.period_frequency,
               base_fee.number_of_period)

GetBaseFeeNumerator(base_fee, activation_point, current_point) ==
    CASE base_fee.period_frequency = 0 -> base_fee.cliff_fee_numerator
      [] base_fee.period_frequency # 0 /\ base_fee.mode = "Linear" ->
            base_fee.cliff_fee_numerator
                - PassedPeriod(base_fee, activation_point, current_point) * base_fee.reduction_factor
      [] base_fee.period_frequency # 0 /\ base_fee.mode = "Exponential" ->
            GetFeeInPeriod(base_fee.cliff_fee_numerator, base_fee.reduction_factor,
                           PassedPeriod(base_fee, activation_point, current_point))
=============================================================================
