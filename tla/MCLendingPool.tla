--------------------------- MODULE MCLendingPool ---------------------------
(***************************************************************************)
(* Bounded instances of LendingPool for TLC: MaxDeposited bounds the token A *)
(* that lenders transfer and MaxTrades the swaps of other AMM users.         *)
(***************************************************************************)
EXTENDS LendingPool, TLC

CONSTANTS MaxDeposited, MaxTrades

VARIABLE trades

MCInit == LendingInit /\ trades = 0

(* The AMM is never idle for good: only the bound ends its trading.          *)
Exhausted ==
    /\ trades = MaxTrades
    /\ UNCHANGED <<lendingVars, trades>>

MCNext ==
    \/ /\ LendingInstruction
       /\ deposited' <= MaxDeposited
       /\ UNCHANGED trades
    \/ /\ trades < MaxTrades
       /\ AmmInstruction
       /\ trades' = trades + 1
    \/ Exhausted

MCSpec == MCInit /\ [][MCNext]_<<lendingVars, trades>>

UserSymmetry == Permutations(User)
-----------------------------------------------------------------------------
FlatFee ==
    [cliff_fee_numerator |-> 1, mode |-> "Linear", number_of_period |-> 0,
     period_frequency |-> 0, reduction_factor |-> 0]

NoDynamicFee ==
    [enabled |-> FALSE, bin_step |-> 0, bin_step_q |-> 0, filter_period |-> 0,
     decay_period |-> 0, reduction_factor |-> 0, max_volatility_accumulator |-> 0,
     variable_fee_control |-> 0]

(* The second is refused: its threshold is not below its minimum.            *)
OfferedParameters ==
    {[min_collateral_ratio |-> 15, liquidation_threshold |-> 12, protocol_fee_bps |-> 1],
     [min_collateral_ratio |-> 15, liquidation_threshold |-> 15, protocol_fee_bps |-> 0]}
=============================================================================
