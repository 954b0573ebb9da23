------------------------------ MODULE Vesting ------------------------------
(***************************************************************************)
(* The schedule of a vesting lock (state/vesting.rs) and the parameters a   *)
(* lock may be created with (VestingParameters of ix_lock_position.rs).     *)
(***************************************************************************)
EXTENDS Integers

CONSTANT MaxVestingDuration   \* ten years, in the unit of the pool's clock

ASSUME MaxVestingDurationAssumption == MaxVestingDuration \in Nat

VestingParameters ==
    [period_frequency : Nat, cliff_unlock_liquidity : Nat, liquidity_per_period : Nat,
     number_of_period : Nat]

(* Works on parameters and on locks: both carry the schedule's fields.       *)
GetTotalLockAmount(schedule) ==
    schedule.cliff_unlock_liquidity + schedule.liquidity_per_period * schedule.number_of_period

ValidVesting(params, cliff_point, current_point) ==
    /\ cliff_point >= current_point
    /\ cliff_point = current_point => params.number_of_period > 0
    /\ params.number_of_period > 0 =>
          params.period_frequency > 0 /\ params.liquidity_per_period > 0
    /\ cliff_point - current_point + params.period_frequency * params.number_of_period
          <= MaxVestingDuration
    /\ GetTotalLockAmount(params) > 0

NewVesting(position, cliff_point, params) ==
    [position |-> position, cliff_point |-> cliff_point,
     period_frequency |-> params.period_frequency,
     cliff_unlock_liquidity |-> params.cliff_unlock_liquidity,
     liquidity_per_period |-> params.liquidity_per_period,
     number_of_period |-> params.number_of_period, total_released_liquidity |-> 0]

(* Mutant: the elapsed periods are not capped.                               *)
GetMaxUnlockedLiquidity_Uncapped(vesting, current_point) ==
    IF current_point < vesting.cliff_point THEN 0
    ELSE vesting.cliff_unlock_liquidity
            + (current_point - vesting.cliff_point) * vesting.liquidity_per_period

(* Mutant: the last period never passes.                                     *)
GetMaxUnlockedLiquidity_LastPeriodLost(vesting, current_point) ==
    LET elapsed == (current_point - vesting.cliff_point) \div vesting.period_frequency
        period  == IF elapsed < vesting.number_of_period THEN elapsed
                                                         ELSE vesting.number_of_period - 1
    IN  CASE current_point < vesting.cliff_point -> 0
          [] current_point >= vesting.cliff_point /\ vesting.period_frequency = 0 ->
                vesting.cliff_unlock_liquidity
          [] current_point >= vesting.cliff_point /\ vesting.period_frequency # 0 ->
                vesting.cliff_unlock_liquidity + period * vesting.liquidity_per_period

GetMaxUnlockedLiquidity(vesting, current_point) ==
    LET elapsed == (current_point - vesting.cliff_point) \div vesting.period_frequency
        period  == IF elapsed < vesting.number_of_period THEN elapsed ELSE vesting.number_of_period
    IN  CASE current_point < vesting.cliff_point -> 0
          [] current_point >= vesting.cliff_point /\ vesting.period_frequency = 0 ->
                vesting.cliff_unlock_liquidity
          [] current_point >= vesting.cliff_point /\ vesting.period_frequency # 0 ->
                vesting.cliff_unlock_liquidity + period * vesting.liquidity_per_period

GetNewReleaseLiquidity(vesting, current_point) ==
    GetMaxUnlockedLiquidity(vesting, current_point) - vesting.total_released_liquidity

(* Mutant: earlier releases are forgotten.                                   *)
AccumulateReleasedLiquidity_Forgetting(vesting, released) ==
    [vesting EXCEPT !.total_released_liquidity = released]

AccumulateReleasedLiquidity(vesting, released) ==
    [vesting EXCEPT !.total_released_liquidity = @ + released]

Done(vesting) == vesting.total_released_liquidity = GetTotalLockAmount(vesting)
=============================================================================
