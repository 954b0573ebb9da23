------------------------------ MODULE Position ------------------------------
(***************************************************************************)
(* A liquidity position of cp-amm and its vesting locks (state/position.rs, *)
(* state/vesting.rs).  A position's liquidity is unlocked, vested or        *)
(* permanently locked; its share of fees and rewards is the growth of an    *)
(* accumulator of the pool since the position's checkpoint.  The code's      *)
(* checked subtractions are predicates (Can...), guards of the actions.      *)
(***************************************************************************)
EXTENDS PoolFees

CONSTANTS
    NUM_REWARDS,                 \* 2
    REWARD_RATE_SCALE,           \* 2^64, the fixed-point unit of a reward rate
    SPLIT_POSITION_DENOMINATOR   \* 1_000_000_000

ASSUME PositionAssumption ==
    /\ NUM_REWARDS \in Nat
    /\ REWARD_RATE_SCALE \in Nat \ {0}
    /\ SPLIT_POSITION_DENOMINATOR \in Nat \ {0}

RewardIndex == 0 .. (NUM_REWARDS - 1)

TOTAL_REWARD_SCALE == LIQUIDITY_SCALE * REWARD_RATE_SCALE

PositionState ==
    [unlocked_liquidity : Nat, vested_liquidity : Nat, permanent_locked_liquidity : Nat,
     fee_checkpoint : [Token -> Nat], fee_pending : [Token -> Nat],
     reward_checkpoint : [RewardIndex -> Nat], reward_pending : [RewardIndex -> Nat]]

(* Position::initialize: a fresh account, every checkpoint zero.             *)
NewPosition(liquidity) ==
    [unlocked_liquidity |-> liquidity, vested_liquidity |-> 0, permanent_locked_liquidity |-> 0,
     fee_checkpoint |-> [t \in Token |-> 0], fee_pending |-> [t \in Token |-> 0],
     reward_checkpoint |-> [i \in RewardIndex |-> 0],
     reward_pending |-> [i \in RewardIndex |-> 0]]

GetTotalLiquidity(position) ==
    position.unlocked_liquidity + position.vested_liquidity + position.permanent_locked_liquidity

IsEmpty(position) ==
    /\ \A i \in RewardIndex : position.reward_pending[i] = 0
    /\ GetTotalLiquidity(position) = 0
    /\ \A t \in Token : position.fee_pending[t] = 0
-----------------------------------------------------------------------------
CanUpdateFee(position, fee_per_liquidity) ==
    GetTotalLiquidity(position) > 0 =>
        \A t \in Token : fee_per_liquidity[t] >= position.fee_checkpoint[t]

(* Mutant: fees not claimed before are overwritten.                          *)
UpdateFee_Overwriting(position, fee_per_liquidity) ==
    [position EXCEPT
        !.fee_pending = [t \in Token |->
            MulDivDown(GetTotalLiquidity(position),
                       fee_per_liquidity[t] - position.fee_checkpoint[t], LIQUIDITY_SCALE)],
        !.fee_checkpoint = fee_per_liquidity]

UpdateFee(position, fee_per_liquidity) ==
    LET liquidity == GetTotalLiquidity(position)
        new_fee(t) == MulDivDown(liquidity, fee_per_liquidity[t] - position.fee_checkpoint[t],
                                 LIQUIDITY_SCALE)
    IN  [position EXCEPT
            !.fee_pending = [t \in Token |->
                IF liquidity > 0 THEN @[t] + new_fee(t) ELSE @[t]],
            !.fee_checkpoint = fee_per_liquidity]

CanUpdatePositionReward(position, reward_infos) ==
    \A i \in RewardIndex : reward_infos[i].initialized =>
        reward_infos[i].reward_per_token_stored >= position.reward_checkpoint[i]

UpdatePositionReward(position, reward_infos) ==
    LET new_reward(i) == MulDivDown(GetTotalLiquidity(position),
                                    reward_infos[i].reward_per_token_stored
                                        - position.reward_checkpoint[i],
                                    TOTAL_REWARD_SCALE)
    IN  [position EXCEPT
            !.reward_pending = [i \in RewardIndex |->
                IF reward_infos[i].initialized THEN @[i] + new_reward(i) ELSE @[i]],
            !.reward_checkpoint = [i \in RewardIndex |->
                IF reward_infos[i].initialized
                THEN reward_infos[i].reward_per_token_stored ELSE @[i]]]
-----------------------------------------------------------------------------
AddLiquidityTo(position, delta) ==
    [position EXCEPT !.unlocked_liquidity = @ + delta]

(* Mutant: the delta is taken from the wrong kind of liquidity.              *)
RemoveUnlockedLiquidity_FromVested(position, delta) ==
    [position EXCEPT !.vested_liquidity = @ - delta]

RemoveUnlockedLiquidity(position, delta) ==
    [position EXCEPT !.unlocked_liquidity = @ - delta]

Lock(position, amount) ==
    [position EXCEPT !.unlocked_liquidity = @ - amount, !.vested_liquidity = @ + amount]

PermanentLockLiquidity(position, amount) ==
    [position EXCEPT !.unlocked_liquidity = @ - amount,
                     !.permanent_locked_liquidity = @ + amount]

ReleaseVestedLiquidity(position, amount) ==
    [position EXCEPT !.vested_liquidity = @ - amount, !.unlocked_liquidity = @ + amount]

(* The share of each part of a position that a split moves, rounded down.    *)
(* Rewards that were never initialized are not moved.                        *)
SplitShare(position, numerators, reward_infos) ==
    LET share(x, numerator) == MulDivDown(x, numerator, SPLIT_POSITION_DENOMINATOR)
    IN  [unlocked  |-> share(position.unlocked_liquidity, numerators.unlocked),
         permanent |-> share(position.permanent_locked_liquidity, numerators.permanent),
         fee       |-> [t \in Token |-> share(position.fee_pending[t], numerators.fee[t])],
         reward    |-> [i \in RewardIndex |->
                            IF reward_infos[i].initialized
                            THEN share(position.reward_pending[i], numerators.reward[i]) ELSE 0]]

(* Mutant: the giver keeps the permanent lock it gives away.                 *)
TakeShare_KeepingLock(position, share) ==
    [position EXCEPT !.unlocked_liquidity = @ - share.unlocked,
                     !.fee_pending = [t \in Token |-> @[t] - share.fee[t]],
                     !.reward_pending = [i \in RewardIndex |-> @[i] - share.reward[i]]]

TakeShare(position, share) ==
    [position EXCEPT !.unlocked_liquidity = @ - share.unlocked,
                     !.permanent_locked_liquidity = @ - share.permanent,
                     !.fee_pending = [t \in Token |-> @[t] - share.fee[t]],
                     !.reward_pending = [i \in RewardIndex |-> @[i] - share.reward[i]]]

(* Mutant: unlocked liquidity is taken from the giver and not received.      *)
GiveShare_NoLiquidity(position, share) ==
    [position EXCEPT !.permanent_locked_liquidity = @ + share.permanent,
                     !.fee_pending = [t \in Token |-> @[t] + share.fee[t]],
                     !.reward_pending = [i \in RewardIndex |-> @[i] + share.reward[i]]]

GiveShare(position, share) ==
    [position EXCEPT !.unlocked_liquidity = @ + share.unlocked,
                     !.permanent_locked_liquidity = @ + share.permanent,
                     !.fee_pending = [t \in Token |-> @[t] + share.fee[t]],
                     !.reward_pending = [i \in RewardIndex |-> @[i] + share.reward[i]]]
=============================================================================
