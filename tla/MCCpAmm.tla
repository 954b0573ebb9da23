------------------------------ MODULE MCCpAmm ------------------------------
(***************************************************************************)
(* Bounded instances of CpAmm for TLC.  MaxInstructions bounds how many     *)
(* instructions a behaviour holds and MaxClock how far the clock runs.      *)
(***************************************************************************)
EXTENDS CpAmm, TLC

CONSTANTS MaxInstructions, MaxClock

VARIABLE instructions

MCInit == Init /\ instructions = 0

(* Nothing more happens once both bounds are reached.                        *)
Exhausted ==
    /\ clock = MaxClock
    /\ instructions = MaxInstructions
    /\ UNCHANGED <<vars, instructions>>

MCNext ==
    \/ /\ clock < MaxClock
       /\ Tick
       /\ UNCHANGED instructions
    \/ /\ instructions < MaxInstructions
       /\ Instruction
       /\ instructions' = instructions + 1
    \/ Exhausted

MCSpec == MCInit /\ [][MCNext]_<<vars, instructions>>

PositionSymmetry == Permutations(PositionId)
-----------------------------------------------------------------------------
FlatBaseFee ==
    [cliff_fee_numerator |-> 3, mode |-> "Linear", number_of_period |-> 0,
     period_frequency |-> 0, reduction_factor |-> 0]

DecreasingBaseFee ==
    [cliff_fee_numerator |-> 3, mode |-> "Linear", number_of_period |-> 2,
     period_frequency |-> 1, reduction_factor |-> 1]

NoDynamicFee ==
    [enabled |-> FALSE, bin_step |-> 0, bin_step_q |-> 0, filter_period |-> 0,
     decay_period |-> 0, reduction_factor |-> 0, max_volatility_accumulator |-> 0,
     variable_fee_control |-> 0]

VolatilityFee ==
    [enabled |-> TRUE, bin_step |-> 1, bin_step_q |-> 6, filter_period |-> 1,
     decay_period |-> 3, reduction_factor |-> 5, max_volatility_accumulator |-> 60,
     variable_fee_control |-> 1]

NoSplits == {}

NoVestings == {}

NumeratorOf(x) ==
    [unlocked |-> x, permanent |-> x, fee |-> [t \in Token |-> x],
     reward |-> [i \in RewardIndex |-> x]]

EvenSplit == {NumeratorOf(1)}
=============================================================================
