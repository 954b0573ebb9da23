-------------------------- MODULE MCFeeParameters --------------------------
(***************************************************************************)
(* Every base fee up to a bound that validate admits, and the fee it gives   *)
(* while the clock runs from before the activation point to past the end of *)
(* the schedule.                                                            *)
(***************************************************************************)
EXTENDS FeeParameters

CONSTANTS MaxPeriods, PeriodFrequencies, ActivationPoint, MaxClock

ASSUME ScheduleBounds ==
    /\ {MaxPeriods, ActivationPoint, MaxClock} \subseteq Nat
    /\ PeriodFrequencies \subseteq Nat

VARIABLES base_fee, clock

scheduleVars == <<base_fee, clock>>

OfferedBaseFees ==
    [cliff_fee_numerator : 1 .. MAX_FEE_NUMERATOR + 1, mode : {"Linear", "Exponential"},
     number_of_period : 0 .. MaxPeriods, period_frequency : PeriodFrequencies,
     reduction_factor : 0 .. BASIS_POINT_MAX + 1]

ScheduleInit ==
    /\ base_fee \in {offered \in OfferedBaseFees : ValidBaseFee(offered)}
    /\ clock = 0

(* Past the bound every schedule has ended and the fee stays as it is.       *)
ScheduleNext ==
    /\ clock' = IF clock < MaxClock THEN clock + 1 ELSE clock
    /\ UNCHANGED base_fee

ScheduleSpec == ScheduleInit /\ [][ScheduleNext]_scheduleVars

CurrentFee == GetBaseFeeNumerator(base_fee, ActivationPoint, clock)
-----------------------------------------------------------------------------
(* BaseFeeParameters::validate looks at the first and last period only; the  *)
(* fee of every moment, before activation, between and after, lies between   *)
(* what it saw: never below the minimum fee, never above the maximum.        *)
FeeStaysInBounds ==
    /\ CurrentFee \in MIN_FEE_NUMERATOR .. MAX_FEE_NUMERATOR
    /\ CurrentFee \in GetMinBaseFeeNumerator(base_fee) .. base_fee.cliff_fee_numerator

(* From the activation point on a fee scheduler only lowers the fee, the     *)
(* truncations of pow included.                                              *)
FeeNeverRises == [][clock >= ActivationPoint => CurrentFee' <= CurrentFee]_scheduleVars

(* The power, multiplied out.                                                *)
Power(x, n) ==
    LET powers[i \in 0 .. n] == IF i = 0 THEN 1 ELSE x * powers[i - 1]
    IN  powers[n]

(* pow by squaring is never above the exact power, and below it by at most   *)
(* one unit in the last place per period, for every period of the schedule.  *)
PowTracksPower ==
    base_fee.mode = "Exponential" /\ base_fee.reduction_factor # 0 =>
        \A period \in 1 .. base_fee.number_of_period :
            LET base  == ReductionBase(base_fee.reduction_factor)
                scale == Power(ONE_Q, period - 1)
            IN  Power(base, period) \in Pow(base, period) * scale
                                        .. (Pow(base, period) + period) * scale
=============================================================================
