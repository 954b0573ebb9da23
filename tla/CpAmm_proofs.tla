---------------------------- MODULE CpAmm_proofs ----------------------------
(***************************************************************************)
(* Type correctness of the cp-amm pool and the range of its price, for      *)
(* every choice of scales, fee schedules, rewards, inputs and accounts.      *)
(* TypeOK says more than that fields have types: liquidity, pending fees,    *)
(* fees of the protocol and vault balances never go below zero.  It is not   *)
(* inductive alone: the curve needs the price in its range (a swap divides   *)
(* by it), a funding needs a reward's duration to be positive (it divides    *)
(* by it).  First come the operations on a position and on a reward: they    *)
(* stay in their types when the code's checked subtractions succeed, and     *)
(* accumulators only grow.                                                   *)
(*                                                                           *)
(* Then safety: checkpoints stay behind their accumulators, the dynamic fee  *)
(* always has a reference price, quotes tell what a swap does, a trade there *)
(* and back never profits, locks never release ahead of their schedule and   *)
(* total_position counts the open positions.  Each is inductive relative to  *)
(* TypeInv, strengthened where a definition below says so.  Last, CpAmm      *)
(* implements LiquidityLedger: each instruction that changes liquidity is    *)
(* one step of the ledger; all others, which settle fees and rewards of      *)
(* positions too, leave it alone.                                            *)
(***************************************************************************)
EXTENDS CpAmm, PoolSwap_proofs

LEMMA ScaleTypes ==
    /\ LIQUIDITY_SCALE \in Nat \ {0}
    /\ REWARD_RATE_SCALE \in Nat \ {0}
    /\ TOTAL_REWARD_SCALE \in Nat \ {0}
    /\ SPLIT_POSITION_DENOMINATOR \in Nat \ {0}
<1>1. LIQUIDITY_SCALE \in Nat \ {0}
    BY LiquidityScaleType
<1>2. REWARD_RATE_SCALE \in Nat \ {0} /\ SPLIT_POSITION_DENOMINATOR \in Nat \ {0}
    BY PositionAssumption
<1>3. TOTAL_REWARD_SCALE \in Nat \ {0}
    BY <1>1, <1>2 DEF TOTAL_REWARD_SCALE
<1> QED
    BY <1>1, <1>2, <1>3

LEMMA NewPositionType ==
    ASSUME NEW liquidity \in Nat
    PROVE  NewPosition(liquidity) \in PositionState
BY DEF NewPosition, PositionState

LEMMA TotalLiquidityType ==
    ASSUME NEW position \in PositionState
    PROVE  GetTotalLiquidity(position) \in Nat
BY DEF PositionState, GetTotalLiquidity

(* update_fee: the checkpoint catches up with the pool's accumulator, pending *)
(* fees only grow, and liquidity and rewards are untouched.                  *)
LEMMA UpdateFeeType ==
    ASSUME NEW position \in PositionState, NEW fee_per_liquidity \in [Token -> Nat],
           CanUpdateFee(position, fee_per_liquidity)
    PROVE  LET updated == UpdateFee(position, fee_per_liquidity)
           IN  /\ updated \in PositionState
               /\ updated.fee_checkpoint = fee_per_liquidity
               /\ updated.reward_checkpoint = position.reward_checkpoint
               /\ updated.unlocked_liquidity = position.unlocked_liquidity
               /\ updated.vested_liquidity = position.vested_liquidity
               /\ updated.permanent_locked_liquidity = position.permanent_locked_liquidity
<1> DEFINE liquidity == GetTotalLiquidity(position)
           new_fee(t) == MulDivDown(liquidity,
                                    fee_per_liquidity[t] - position.fee_checkpoint[t],
                                    LIQUIDITY_SCALE)
           pending == [t \in Token |-> IF liquidity > 0
                                       THEN position.fee_pending[t] + new_fee(t)
                                       ELSE position.fee_pending[t]]
<1>1. liquidity \in Nat
    BY TotalLiquidityType
<1>2. position.fee_pending \in [Token -> Nat] /\ position.fee_checkpoint \in [Token -> Nat]
    BY DEF PositionState
<1>3. ASSUME NEW t \in Token, liquidity > 0
      PROVE  new_fee(t) \in Nat
    <2>1. fee_per_liquidity[t] - position.fee_checkpoint[t] \in Nat
        BY <1>2, <1>3 DEF CanUpdateFee
    <2> HIDE DEF liquidity
    <2> QED
        BY <1>1, <2>1, MulDivDownType, ScaleTypes
<1> HIDE DEF liquidity, new_fee
<1>4. pending \in [Token -> Nat]
    <2>1. ASSUME NEW t \in Token
          PROVE  (IF liquidity > 0 THEN position.fee_pending[t] + new_fee(t)
                                   ELSE position.fee_pending[t]) \in Nat
        BY <1>1, <1>2, <1>3, <2>1
    <2> QED
        BY <2>1
<1>5. UpdateFee(position, fee_per_liquidity)
        = [position EXCEPT !.fee_pending = pending, !.fee_checkpoint = fee_per_liquidity]
    BY DEF UpdateFee, liquidity, new_fee
<1> HIDE DEF pending
<1> QED
    BY <1>4, <1>5 DEF PositionState

(* update_position_reward: the same for the rewards.                         *)
LEMMA UpdatePositionRewardType ==
    ASSUME NEW position \in PositionState, NEW reward_infos \in [RewardIndex -> RewardInfo],
           CanUpdatePositionReward(position, reward_infos)
    PROVE  LET updated == UpdatePositionReward(position, reward_infos)
           IN  /\ updated \in PositionState
               /\ \A i \in RewardIndex :
                     updated.reward_checkpoint[i] =
                         IF reward_infos[i].initialized
                         THEN reward_infos[i].reward_per_token_stored
                         ELSE position.reward_checkpoint[i]
               /\ updated.fee_checkpoint = position.fee_checkpoint
               /\ updated.unlocked_liquidity = position.unlocked_liquidity
               /\ updated.vested_liquidity = position.vested_liquidity
               /\ updated.permanent_locked_liquidity = position.permanent_locked_liquidity
               /\ GetTotalLiquidity(updated) = GetTotalLiquidity(position)
<1> DEFINE liquidity == GetTotalLiquidity(position)
           new_reward(i) == MulDivDown(liquidity,
                                       reward_infos[i].reward_per_token_stored
                                         - position.reward_checkpoint[i],
                                       TOTAL_REWARD_SCALE)
           pending == [i \in RewardIndex |-> IF reward_infos[i].initialized
                                             THEN position.reward_pending[i] + new_reward(i)
                                             ELSE position.reward_pending[i]]
           checkpoint == [i \in RewardIndex |-> IF reward_infos[i].initialized
                                                THEN reward_infos[i].reward_per_token_stored
                                                ELSE position.reward_checkpoint[i]]
<1>1. liquidity \in Nat
    BY TotalLiquidityType
<1>2. /\ position.reward_pending \in [RewardIndex -> Nat]
      /\ position.reward_checkpoint \in [RewardIndex -> Nat]
    BY DEF PositionState
<1>3. \A i \in RewardIndex : reward_infos[i].reward_per_token_stored \in Nat
    BY DEF RewardInfo
<1>4. ASSUME NEW i \in RewardIndex, reward_infos[i].initialized
      PROVE  new_reward(i) \in Nat
    <2>1. reward_infos[i].reward_per_token_stored - position.reward_checkpoint[i] \in Nat
        BY <1>2, <1>3, <1>4 DEF CanUpdatePositionReward
    <2> HIDE DEF liquidity
    <2> QED
        BY <1>1, <2>1, MulDivDownType, ScaleTypes
<1> HIDE DEF new_reward
<1>5. pending \in [RewardIndex -> Nat]
    <2>1. ASSUME NEW i \in RewardIndex
          PROVE  (IF reward_infos[i].initialized THEN position.reward_pending[i] + new_reward(i)
                                                 ELSE position.reward_pending[i]) \in Nat
        BY <1>2, <1>4, <2>1
    <2> QED
        BY <2>1
<1>6. checkpoint \in [RewardIndex -> Nat]
    BY <1>2, <1>3
<1>7. UpdatePositionReward(position, reward_infos)
        = [position EXCEPT !.reward_pending = pending, !.reward_checkpoint = checkpoint]
    BY DEF UpdatePositionReward, new_reward
<1>8. \A i \in RewardIndex :
          checkpoint[i] = IF reward_infos[i].initialized
                          THEN reward_infos[i].reward_per_token_stored
                          ELSE position.reward_checkpoint[i]
    OBVIOUS
<1> HIDE DEF pending, checkpoint
<1>9. /\ UpdatePositionReward(position, reward_infos) \in PositionState
      /\ UpdatePositionReward(position, reward_infos).reward_checkpoint = checkpoint
      /\ UpdatePositionReward(position, reward_infos).fee_checkpoint = position.fee_checkpoint
      /\ UpdatePositionReward(position, reward_infos).unlocked_liquidity
            = position.unlocked_liquidity
      /\ UpdatePositionReward(position, reward_infos).vested_liquidity = position.vested_liquidity
      /\ UpdatePositionReward(position, reward_infos).permanent_locked_liquidity
            = position.permanent_locked_liquidity
    BY <1>5, <1>6, <1>7 DEF PositionState
<1> QED
    BY <1>8, <1>9 DEF GetTotalLiquidity
-----------------------------------------------------------------------------
LEMMA AddLiquidityToType ==
    ASSUME NEW position \in PositionState, NEW delta \in Nat
    PROVE  /\ AddLiquidityTo(position, delta) \in PositionState
           /\ AddLiquidityTo(position, delta).fee_checkpoint = position.fee_checkpoint
           /\ AddLiquidityTo(position, delta).reward_checkpoint = position.reward_checkpoint
<1>1. position.unlocked_liquidity + delta \in Nat
    BY DEF PositionState
<1> QED
    BY <1>1 DEF PositionState, AddLiquidityTo

LEMMA RemoveUnlockedLiquidityType ==
    ASSUME NEW position \in PositionState, NEW delta \in Nat,
           delta <= position.unlocked_liquidity
    PROVE  /\ RemoveUnlockedLiquidity(position, delta) \in PositionState
           /\ RemoveUnlockedLiquidity(position, delta).fee_checkpoint = position.fee_checkpoint
           /\ RemoveUnlockedLiquidity(position, delta).reward_checkpoint
                  = position.reward_checkpoint
<1>1. position.unlocked_liquidity - delta \in Nat
    BY DEF PositionState
<1> QED
    BY <1>1 DEF PositionState, RemoveUnlockedLiquidity

LEMMA LockType ==
    ASSUME NEW position \in PositionState, NEW amount \in Nat,
           amount <= position.unlocked_liquidity
    PROVE  /\ Lock(position, amount) \in PositionState
           /\ Lock(position, amount).fee_checkpoint = position.fee_checkpoint
           /\ Lock(position, amount).reward_checkpoint = position.reward_checkpoint
<1>1. /\ position.unlocked_liquidity - amount \in Nat
      /\ position.vested_liquidity + amount \in Nat
    BY DEF PositionState
<1> QED
    BY <1>1 DEF PositionState, Lock

LEMMA PermanentLockLiquidityType ==
    ASSUME NEW position \in PositionState, NEW amount \in Nat,
           amount <= position.unlocked_liquidity
    PROVE  /\ PermanentLockLiquidity(position, amount) \in PositionState
           /\ PermanentLockLiquidity(position, amount).fee_checkpoint = position.fee_checkpoint
           /\ PermanentLockLiquidity(position, amount).reward_checkpoint
                  = position.reward_checkpoint
<1>1. /\ position.unlocked_liquidity - amount \in Nat
      /\ position.permanent_locked_liquidity + amount \in Nat
    BY DEF PositionState
<1> QED
    BY <1>1 DEF PositionState, PermanentLockLiquidity

LEMMA ReleaseVestedLiquidityType ==
    ASSUME NEW position \in PositionState, NEW amount \in Nat,
           amount <= position.vested_liquidity
    PROVE  /\ ReleaseVestedLiquidity(position, amount) \in PositionState
           /\ ReleaseVestedLiquidity(position, amount).fee_checkpoint = position.fee_checkpoint
           /\ ReleaseVestedLiquidity(position, amount).reward_checkpoint
                  = position.reward_checkpoint
<1>1. /\ position.vested_liquidity - amount \in Nat
      /\ position.unlocked_liquidity + amount \in Nat
    BY DEF PositionState
<1> QED
    BY <1>1 DEF PositionState, ReleaseVestedLiquidity

Numerator == 0 .. SPLIT_POSITION_DENOMINATOR

Numerators == [unlocked : Numerator, permanent : Numerator, fee : [Token -> Numerator],
               reward : [RewardIndex -> Numerator]]

Shares == [unlocked : Nat, permanent : Nat, fee : [Token -> Nat], reward : [RewardIndex -> Nat]]

ShareIsWithin(share, position) ==
    /\ share.unlocked <= position.unlocked_liquidity
    /\ share.permanent <= position.permanent_locked_liquidity
    /\ \A t \in Token : share.fee[t] <= position.fee_pending[t]
    /\ \A i \in RewardIndex : share.reward[i] <= position.reward_pending[i]

(* A split moves at most what the first position has.                        *)
LEMMA SplitShareType ==
    ASSUME NEW position \in PositionState, NEW numerators \in Numerators, NEW reward_infos
    PROVE  /\ SplitShare(position, numerators, reward_infos) \in Shares
           /\ ShareIsWithin(SplitShare(position, numerators, reward_infos), position)
<1> DEFINE share(x, n) == MulDivDown(x, n, SPLIT_POSITION_DENOMINATOR)
           split == SplitShare(position, numerators, reward_infos)
<1>1. ASSUME NEW x \in Nat, NEW n \in Numerator
      PROVE  share(x, n) \in Nat /\ share(x, n) <= x
    <2>1. n \in Nat /\ n <= SPLIT_POSITION_DENOMINATOR
        BY ScaleTypes DEF Numerator
    <2> QED
        BY <2>1, MulDivDownType, MulDivDownBound, ScaleTypes
<1> HIDE DEF share
<1>2. /\ position.unlocked_liquidity \in Nat /\ position.permanent_locked_liquidity \in Nat
      /\ \A t \in Token : position.fee_pending[t] \in Nat
      /\ \A i \in RewardIndex : position.reward_pending[i] \in Nat
    BY DEF PositionState
<1>3. /\ numerators.unlocked \in Numerator /\ numerators.permanent \in Numerator
      /\ \A t \in Token : numerators.fee[t] \in Numerator
      /\ \A i \in RewardIndex : numerators.reward[i] \in Numerator
    BY DEF Numerators
<1>4. split = [unlocked  |-> share(position.unlocked_liquidity, numerators.unlocked),
               permanent |-> share(position.permanent_locked_liquidity, numerators.permanent),
               fee       |-> [t \in Token |-> share(position.fee_pending[t], numerators.fee[t])],
               reward    |-> [i \in RewardIndex |->
                                IF reward_infos[i].initialized
                                THEN share(position.reward_pending[i], numerators.reward[i])
                                ELSE 0]]
    BY DEF SplitShare, share
<1> HIDE DEF split
<1>5. /\ split.unlocked \in Nat /\ split.unlocked <= position.unlocked_liquidity
      /\ split.permanent \in Nat /\ split.permanent <= position.permanent_locked_liquidity
    BY <1>1, <1>2, <1>3, <1>4
<1>6. /\ split.fee \in [Token -> Nat]
      /\ \A t \in Token : split.fee[t] <= position.fee_pending[t]
    BY <1>1, <1>2, <1>3, <1>4
<1>7. /\ split.reward \in [RewardIndex -> Nat]
      /\ \A i \in RewardIndex : split.reward[i] <= position.reward_pending[i]
    BY <1>1, <1>2, <1>3, <1>4
<1>8. split \in Shares
    BY <1>4, <1>5, <1>6, <1>7 DEF Shares
<1> QED
    BY <1>5, <1>6, <1>7, <1>8 DEF split, ShareIsWithin

LEMMA TakeShareType ==
    ASSUME NEW position \in PositionState, NEW share \in Shares, ShareIsWithin(share, position)
    PROVE  /\ TakeShare(position, share) \in PositionState
           /\ TakeShare(position, share).fee_checkpoint = position.fee_checkpoint
           /\ TakeShare(position, share).reward_checkpoint = position.reward_checkpoint
<1>1. /\ position.unlocked_liquidity - share.unlocked \in Nat
      /\ position.permanent_locked_liquidity - share.permanent \in Nat
    BY DEF PositionState, Shares, ShareIsWithin
<1>2. [t \in Token |-> position.fee_pending[t] - share.fee[t]] \in [Token -> Nat]
    BY DEF PositionState, Shares, ShareIsWithin
<1>3. [i \in RewardIndex |-> position.reward_pending[i] - share.reward[i]]
        \in [RewardIndex -> Nat]
    BY DEF PositionState, Shares, ShareIsWithin
<1> QED
    BY <1>1, <1>2, <1>3 DEF PositionState, TakeShare

LEMMA GiveShareType ==
    ASSUME NEW position \in PositionState, NEW share \in Shares
    PROVE  /\ GiveShare(position, share) \in PositionState
           /\ GiveShare(position, share).fee_checkpoint = position.fee_checkpoint
           /\ GiveShare(position, share).reward_checkpoint = position.reward_checkpoint
<1>1. /\ position.unlocked_liquidity + share.unlocked \in Nat
      /\ position.permanent_locked_liquidity + share.permanent \in Nat
    BY DEF PositionState, Shares
<1>2. [t \in Token |-> position.fee_pending[t] + share.fee[t]] \in [Token -> Nat]
    BY DEF PositionState, Shares
<1>3. [i \in RewardIndex |-> position.reward_pending[i] + share.reward[i]]
        \in [RewardIndex -> Nat]
    BY DEF PositionState, Shares
<1> QED
    BY <1>1, <1>2, <1>3 DEF PositionState, GiveShare
-----------------------------------------------------------------------------
(* RewardInfo::update_rewards: the reward per token only grows, and the last *)
(* update moves to the current time or to the end of the campaign.           *)
LEMMA UpdateRewardType ==
    ASSUME NEW reward \in RewardInfo, NEW liquidity \in Nat, NEW now \in Nat,
           CanUpdateReward(reward, now)
    PROVE  LET updated == UpdateReward(reward, liquidity, now)
           IN  /\ updated \in RewardInfo
               /\ updated.initialized = reward.initialized
               /\ updated.reward_duration = reward.reward_duration
               /\ updated.reward_duration_end = reward.reward_duration_end
               /\ updated.reward_per_token_stored >= reward.reward_per_token_stored
               /\ updated.last_update_time \in
                    {reward.last_update_time, LastTimeRewardApplicable(reward, now)}
<1> DEFINE elapsed == GetSecondsElapsedSinceLastUpdate(reward, now)
           last    == LastTimeRewardApplicable(reward, now)
<1>1. /\ reward.reward_rate \in Nat /\ reward.reward_per_token_stored \in Nat
      /\ reward.cumulative_seconds_with_empty_liquidity_reward \in Nat
      /\ reward.reward_duration_end \in Nat /\ reward.last_update_time \in Nat
    BY DEF RewardInfo
<1>2. last \in Nat
    BY <1>1 DEF LastTimeRewardApplicable
<1>3. CASE ~reward.initialized
    BY <1>1, <1>3 DEF UpdateReward
<1>4. CASE reward.initialized
    <2>1. elapsed \in Nat
        BY <1>1, <1>2, <1>4 DEF CanUpdateReward, GetSecondsElapsedSinceLastUpdate
    <2> HIDE DEF elapsed, last
    <2>2. CASE liquidity > 0
        <3> DEFINE grown == MulDivDown(elapsed * reward.reward_rate, LIQUIDITY_SCALE, liquidity)
        <3>1. elapsed * reward.reward_rate \in Nat
            BY <1>1, <2>1
        <3>2. grown \in Nat
            BY <2>2, <3>1, MulDivDownType, ScaleTypes
        <3>3. UpdateReward(reward, liquidity, now)
                = [reward EXCEPT !.reward_per_token_stored = @ + grown, !.last_update_time = last]
            BY <1>4, <2>2 DEF UpdateReward, AccumulateRewardPerTokenStored, UpdateLastUpdateTime,
                              elapsed, last, RewardInfo
        <3> HIDE DEF grown
        <3>4. /\ reward.reward_per_token_stored + grown \in Nat
              /\ reward.reward_per_token_stored + grown >= reward.reward_per_token_stored
            BY <1>1, <3>2
        <3>5. UpdateReward(reward, liquidity, now) \in RewardInfo
            BY <1>2, <3>3, <3>4 DEF RewardInfo
        <3>6. /\ UpdateReward(reward, liquidity, now).last_update_time = last
              /\ UpdateReward(reward, liquidity, now).reward_per_token_stored
                    = reward.reward_per_token_stored + grown
              /\ UpdateReward(reward, liquidity, now).initialized = reward.initialized
              /\ UpdateReward(reward, liquidity, now).reward_duration = reward.reward_duration
              /\ UpdateReward(reward, liquidity, now).reward_duration_end
                    = reward.reward_duration_end
            BY <3>3 DEF RewardInfo
        <3>7. UpdateReward(reward, liquidity, now).reward_per_token_stored
                >= reward.reward_per_token_stored
            BY <3>4, <3>6
        <3> QED
            BY <3>5, <3>6, <3>7, Zenon DEF last
    <2>3. CASE ~(liquidity > 0)
        <3>1. UpdateReward(reward, liquidity, now)
                = [reward EXCEPT !.cumulative_seconds_with_empty_liquidity_reward = @ + elapsed,
                                 !.last_update_time = last]
            BY <1>4, <2>3 DEF UpdateReward, AccumulateEmptySeconds, UpdateLastUpdateTime,
                              elapsed, last, RewardInfo
        <3>2. reward.cumulative_seconds_with_empty_liquidity_reward + elapsed \in Nat
            BY <1>1, <2>1
        <3>3. UpdateReward(reward, liquidity, now) \in RewardInfo
            BY <1>2, <3>1, <3>2 DEF RewardInfo
        <3>4. /\ UpdateReward(reward, liquidity, now).last_update_time = last
              /\ UpdateReward(reward, liquidity, now).reward_per_token_stored
                    = reward.reward_per_token_stored
              /\ UpdateReward(reward, liquidity, now).initialized = reward.initialized
              /\ UpdateReward(reward, liquidity, now).reward_duration = reward.reward_duration
              /\ UpdateReward(reward, liquidity, now).reward_duration_end
                    = reward.reward_duration_end
            BY <3>1 DEF RewardInfo
        <3>5. reward.reward_per_token_stored >= reward.reward_per_token_stored
            BY <1>1
        <3> QED
            BY <3>3, <3>4, <3>5, Zenon DEF last
    <2> QED
        BY <2>2, <2>3
<1> QED
    BY <1>3, <1>4

LEMMA IneligibleRewardType ==
    ASSUME NEW reward \in RewardInfo
    PROVE  IneligibleReward(reward) \in Nat
<1>1. /\ reward.reward_rate \in Nat
      /\ reward.cumulative_seconds_with_empty_liquidity_reward \in Nat
    BY DEF RewardInfo
<1> QED
    BY <1>1, MulDivDownType, ScaleTypes DEF IneligibleReward

LEMMA ResetEmptySecondsType ==
    ASSUME NEW reward \in RewardInfo
    PROVE  LET reset == ResetEmptySeconds(reward)
           IN  /\ reset \in RewardInfo
               /\ reset.initialized = reward.initialized
               /\ reset.reward_duration = reward.reward_duration
               /\ reset.reward_duration_end = reward.reward_duration_end
               /\ reset.reward_per_token_stored = reward.reward_per_token_stored
               /\ reset.last_update_time = reward.last_update_time
BY DEF RewardInfo, ResetEmptySeconds

(* A funding sets the last update to now and the end after it.               *)
LEMMA UpdateRateAfterFundingType ==
    ASSUME NEW reward \in RewardInfo, NEW now \in Nat, NEW funding_amount \in Nat,
           reward.reward_duration > 0
    PROVE  LET funded == UpdateRateAfterFunding(reward, now, funding_amount)
           IN  /\ funded \in RewardInfo
               /\ funded.initialized = reward.initialized
               /\ funded.reward_duration = reward.reward_duration
               /\ funded.reward_per_token_stored = reward.reward_per_token_stored
               /\ funded.last_update_time = now
               /\ funded.last_update_time <= funded.reward_duration_end
<1> DEFINE leftover == IF now >= reward.reward_duration_end THEN 0
                       ELSE MulDivDown(reward.reward_rate, reward.reward_duration_end - now,
                                       REWARD_RATE_SCALE)
           rate == MulDivDown(funding_amount + leftover, REWARD_RATE_SCALE,
                              reward.reward_duration)
<1>1. /\ reward.reward_rate \in Nat /\ reward.reward_duration_end \in Nat
      /\ reward.reward_duration \in Nat \ {0}
    BY DEF RewardInfo
<1>2. leftover \in Nat
    <2>1. CASE now >= reward.reward_duration_end
        BY <2>1
    <2>2. CASE ~(now >= reward.reward_duration_end)
        <3>1. reward.reward_duration_end - now \in Nat
            BY <1>1, <2>2
        <3> QED
            BY <1>1, <2>2, <3>1, MulDivDownType, ScaleTypes
    <2> QED
        BY <2>1, <2>2
<1> HIDE DEF leftover
<1>3. rate \in Nat
    <2>1. funding_amount + leftover \in Nat
        BY <1>2
    <2> QED
        BY <1>1, <2>1, MulDivDownType, ScaleTypes
<1>4. UpdateRateAfterFunding(reward, now, funding_amount)
        = [reward EXCEPT !.reward_rate = rate, !.last_update_time = now,
                         !.reward_duration_end = now + reward.reward_duration]
    BY DEF UpdateRateAfterFunding, leftover
<1> HIDE DEF rate
<1>5. now + reward.reward_duration \in Nat /\ now <= now + reward.reward_duration
    BY <1>1
<1> QED
    BY <1>3, <1>4, <1>5 DEF RewardInfo
-----------------------------------------------------------------------------

(* fund_reward divides by the duration of an initialized reward.             *)
RewardsHaveDuration ==
    \A i \in RewardIndex : rewards[i].initialized => rewards[i].reward_duration > 0

(* The inductive invariant.                                                  *)
TypeInv == TypeOK /\ PriceInRange /\ RewardsHaveDuration
-----------------------------------------------------------------------------
LEMMA PutType ==
    ASSUME NEW f, NEW S, NEW V, DOMAIN f \subseteq S, f \in [DOMAIN f -> V],
           NEW x \in S, NEW value \in V
    PROVE  /\ DOMAIN Put(f, x, value) = DOMAIN f \cup {x}
           /\ DOMAIN Put(f, x, value) \subseteq S
           /\ Put(f, x, value) \in [DOMAIN Put(f, x, value) -> V]
BY DEF Put

LEMMA DropType ==
    ASSUME NEW f, NEW S, NEW V, DOMAIN f \subseteq S, f \in [DOMAIN f -> V], NEW x
    PROVE  /\ DOMAIN Drop(f, x) = DOMAIN f \ {x}
           /\ DOMAIN Drop(f, x) \subseteq S
           /\ Drop(f, x) \in [DOMAIN Drop(f, x) -> V]
BY DEF Drop

LEMMA ExceptType ==
    ASSUME NEW f, NEW S, NEW V, DOMAIN f \subseteq S, f \in [DOMAIN f -> V],
           NEW x \in DOMAIN f, NEW value \in V
    PROVE  /\ DOMAIN [f EXCEPT ![x] = value] \subseteq S
           /\ [f EXCEPT ![x] = value] \in [DOMAIN [f EXCEPT ![x] = value] -> V]
OBVIOUS

(* The price range, without its assumption's other facts.                    *)
LEMMA PriceTypes ==
    ASSUME NEW sqrt_price \in SqrtMinPrice .. SqrtMaxPrice
    PROVE  /\ sqrt_price \in Nat \ {0}
           /\ SqrtMinPrice \in Nat \ {0} /\ SqrtMaxPrice \in Nat \ {0}
           /\ SqrtMaxPrice - sqrt_price \in Nat
           /\ sqrt_price - SqrtMinPrice \in Nat
           /\ sqrt_price * SqrtMaxPrice \in Nat \ {0}
<1>1. /\ sqrt_price \in Nat \ {0}
      /\ SqrtMinPrice \in Nat \ {0} /\ SqrtMaxPrice \in Nat \ {0}
      /\ SqrtMaxPrice - sqrt_price \in Nat
      /\ sqrt_price - SqrtMinPrice \in Nat
    BY PriceRangeAssumption DEF UsablePriceRange
<1>2. ASSUME NEW x \in Nat \ {0}, NEW y \in Nat \ {0} PROVE x * y \in Nat \ {0}
    OBVIOUS
<1> QED
    BY <1>1, <1>2

(* Amounts of tokens for a liquidity are never negative while the price is   *)
(* in its range, rounded either way.                                         *)
LEMMA AmountsUpType ==
    ASSUME NEW sqrt_price \in SqrtMinPrice .. SqrtMaxPrice, NEW delta \in Nat
    PROVE  GetAmountsUp(sqrt_price, delta) \in [Token -> Nat]
<1>1. GetDeltaAmountAUp(sqrt_price, SqrtMaxPrice, delta) \in Nat
    BY PriceTypes, MulDivUpType DEF GetDeltaAmountAUp
<1>2. GetDeltaAmountBUp(SqrtMinPrice, sqrt_price, delta) \in Nat
    BY PriceTypes, MulDivUpType, ScaleTypes DEF GetDeltaAmountBUp
<1> QED
    BY <1>1, <1>2 DEF GetAmountsUp

LEMMA AmountsDownType ==
    ASSUME pool.sqrt_price \in SqrtMinPrice .. SqrtMaxPrice, NEW delta \in Nat
    PROVE  GetAmountsDown(delta) \in [Token -> Nat]
<1>1. GetDeltaAmountADown(pool.sqrt_price, SqrtMaxPrice, delta) \in Nat
    BY PriceTypes, MulDivDownType DEF GetDeltaAmountADown
<1>2. GetDeltaAmountBDown(SqrtMinPrice, pool.sqrt_price, delta) \in Nat
    BY PriceTypes, MulDivDownType, ScaleTypes DEF GetDeltaAmountBDown
<1> QED
    BY <1>1, <1>2 DEF GetAmountsDown

LEMMA PaidType ==
    ASSUME vault \in [Token -> Nat], NEW amounts \in [Token -> Nat], CanPay(amounts)
    PROVE  Paid(amounts) \in [Token -> Nat]
BY DEF Paid, CanPay

LEMMA ReceivedType ==
    ASSUME vault \in [Token -> Nat], NEW amounts \in [Token -> Nat]
    PROVE  Received(amounts) \in [Token -> Nat]
BY DEF Received

(* Updating a position's rewards and fees, in the order of the handlers.     *)
LEMMA SettleType ==
    ASSUME NEW position \in PositionState, NEW infos \in [RewardIndex -> RewardInfo],
           NEW fee_per_liquidity \in [Token -> Nat],
           CanUpdatePositionReward(position, infos), CanUpdateFee(position, fee_per_liquidity)
    PROVE  LET settled == UpdateFee(UpdatePositionReward(position, infos), fee_per_liquidity)
           IN  /\ settled \in PositionState
               /\ settled.fee_checkpoint = fee_per_liquidity
               /\ \A i \in RewardIndex :
                     settled.reward_checkpoint[i] =
                         IF infos[i].initialized THEN infos[i].reward_per_token_stored
                                                 ELSE position.reward_checkpoint[i]
               /\ settled.unlocked_liquidity = position.unlocked_liquidity
               /\ settled.vested_liquidity = position.vested_liquidity
<1> DEFINE rewarded == UpdatePositionReward(position, infos)
<1>1. /\ rewarded \in PositionState
      /\ \A i \in RewardIndex :
            rewarded.reward_checkpoint[i] =
                IF infos[i].initialized THEN infos[i].reward_per_token_stored
                                        ELSE position.reward_checkpoint[i]
      /\ rewarded.fee_checkpoint = position.fee_checkpoint
      /\ rewarded.unlocked_liquidity = position.unlocked_liquidity
      /\ rewarded.vested_liquidity = position.vested_liquidity
      /\ GetTotalLiquidity(rewarded) = GetTotalLiquidity(position)
    BY UpdatePositionRewardType
<1> HIDE DEF rewarded
<1>2. CanUpdateFee(rewarded, fee_per_liquidity)
    BY <1>1 DEF CanUpdateFee
<1>3. LET settled == UpdateFee(rewarded, fee_per_liquidity)
      IN  /\ settled \in PositionState
          /\ settled.fee_checkpoint = fee_per_liquidity
          /\ settled.reward_checkpoint = rewarded.reward_checkpoint
          /\ settled.unlocked_liquidity = rewarded.unlocked_liquidity
          /\ settled.vested_liquidity = rewarded.vested_liquidity
    BY <1>1, <1>2, UpdateFeeType
<1> QED
    BY <1>1, <1>3 DEF rewarded

(* Pool::update_rewards keeps types, durations and ends; accumulators grow.  *)
LEMMA UpdatedRewardsType ==
    ASSUME TypeOK, CanUpdateRewards
    PROVE  /\ UpdatedRewards \in [RewardIndex -> RewardInfo]
           /\ \A i \in RewardIndex :
                 /\ UpdatedRewards[i].initialized = rewards[i].initialized
                 /\ UpdatedRewards[i].reward_duration = rewards[i].reward_duration
                 /\ UpdatedRewards[i].reward_duration_end = rewards[i].reward_duration_end
                 /\ UpdatedRewards[i].reward_per_token_stored
                        >= rewards[i].reward_per_token_stored
                 /\ UpdatedRewards[i].last_update_time \in
                        {rewards[i].last_update_time, LastTimeRewardApplicable(rewards[i], clock)}
<1>1. rewards \in [RewardIndex -> RewardInfo] /\ pool.liquidity \in Nat /\ clock \in Nat
    BY DEF TypeOK, PoolState
<1>2. ASSUME NEW i \in RewardIndex
      PROVE  LET updated == UpdateReward(rewards[i], pool.liquidity, clock)
             IN  /\ updated \in RewardInfo
                 /\ updated.initialized = rewards[i].initialized
                 /\ updated.reward_duration = rewards[i].reward_duration
                 /\ updated.reward_duration_end = rewards[i].reward_duration_end
                 /\ updated.reward_per_token_stored >= rewards[i].reward_per_token_stored
                 /\ updated.last_update_time \in
                        {rewards[i].last_update_time, LastTimeRewardApplicable(rewards[i], clock)}
    <2>1. rewards[i] \in RewardInfo /\ CanUpdateReward(rewards[i], clock)
        BY <1>1, <1>2 DEF CanUpdateRewards
    <2> QED
        BY <1>1, <2>1, UpdateRewardType
<1> QED
    BY <1>2 DEF UpdatedRewards
-----------------------------------------------------------------------------
(* The bins between two prices.                                              *)
LEMMA DeltaBinType ==
    ASSUME NEW sqrt_price_a \in Nat \ {0}, NEW sqrt_price_b \in Nat \ {0},
           DynamicFee.enabled
    PROVE  GetDeltaBinId(sqrt_price_a, sqrt_price_b) \in Nat
<1> DEFINE upper == IF sqrt_price_a > sqrt_price_b THEN sqrt_price_a ELSE sqrt_price_b
           lower == IF sqrt_price_a > sqrt_price_b THEN sqrt_price_b ELSE sqrt_price_a
           ratio == MulDivDown(upper, ONE_Q, lower)
           step  == DynamicFee.bin_step_q
<1>1. upper \in Nat \ {0} /\ lower \in Nat \ {0} /\ upper >= lower
    OBVIOUS
<1>2. ONE_Q \in Nat \ {0} /\ step \in Nat \ {0}
    BY OneQAssumption, FeeAssumption DEF UsableFees, DynamicFeeParameters
<1> HIDE DEF upper, lower, step
<1>3. upper * ONE_Q \in Nat /\ upper * ONE_Q >= ONE_Q * lower
    BY <1>1, <1>2
<1>4. ratio \in Nat /\ ratio >= ONE_Q
    BY <1>1, <1>2, <1>3, MulDivDownType, DivLowerBound DEF MulDivDown
<1> HIDE DEF ratio
<1>5. (ratio - ONE_Q) \div step \in Nat
    BY <1>2, <1>4
<1> QED
    BY <1>5 DEF GetDeltaBinId, upper, lower, ratio, step

LEMMA PreSwapType ==
    ASSUME NEW dyn \in DynamicFeeState, NEW sqrt_price \in Nat, NEW now \in Nat
    PROVE  UpdatePreSwap(dyn, sqrt_price, now) \in DynamicFeeState
<1> DEFINE decayed == MulDivDown(dyn.volatility_accumulator, DynamicFee.reduction_factor,
                                 BASIS_POINT_MAX)
<1>1. dyn.volatility_accumulator \in Nat /\ DynamicFee.reduction_factor \in Nat
    BY FeeAssumption DEF UsableFees, DynamicFeeState, DynamicFeeParameters
<1>2. decayed \in Nat
    BY <1>1, FeeScale, MulDivDownType
<1> HIDE DEF decayed
<1> QED
    BY <1>2 DEF UpdatePreSwap, UpdateReferences, DynamicFeeState, decayed

LEMMA PostSwapType ==
    ASSUME NEW dyn \in DynamicFeeState, NEW old \in Nat \ {0}, NEW new \in Nat \ {0},
           NEW now \in Nat, DynamicFee.enabled => dyn.sqrt_price_reference > 0
    PROVE  /\ UpdatePostSwap(dyn, old, new, now) \in DynamicFeeState
           /\ UpdatePostSwap(dyn, old, new, now).sqrt_price_reference = dyn.sqrt_price_reference
           /\ UpdatePostSwap(dyn, old, new, now).last_update_timestamp
                \in {dyn.last_update_timestamp, now}
<1>1. CASE ~DynamicFee.enabled
    BY <1>1 DEF UpdatePostSwap
<1>2. CASE DynamicFee.enabled
    <2> DEFINE bins   == GetDeltaBinId(new, dyn.sqrt_price_reference)
               capped == CapAt(dyn.volatility_reference + bins * BASIS_POINT_MAX,
                               DynamicFee.max_volatility_accumulator)
               updated == [dyn EXCEPT !.volatility_accumulator = capped]
    <2>1. bins \in Nat
        BY <1>2, DeltaBinType DEF DynamicFeeState
    <2> HIDE DEF bins
    <2>2. dyn.volatility_reference + bins * BASIS_POINT_MAX \in Nat
        BY <2>1, FeeScale DEF DynamicFeeState
    <2>3. DynamicFee.max_volatility_accumulator \in Nat
        BY FeeAssumption DEF UsableFees, DynamicFeeParameters
    <2>4. capped \in Nat
        BY <2>2, <2>3, CapAtType
    <2>5. UpdateVolatilityAccumulator(dyn, new) = updated
        BY DEF UpdateVolatilityAccumulator, bins
    <2> HIDE DEF capped
    <2>6. /\ updated \in DynamicFeeState
          /\ [updated EXCEPT !.last_update_timestamp = now] \in DynamicFeeState
          /\ updated.sqrt_price_reference = dyn.sqrt_price_reference
          /\ updated.last_update_timestamp = dyn.last_update_timestamp
          /\ [updated EXCEPT !.last_update_timestamp = now].sqrt_price_reference
                = dyn.sqrt_price_reference
          /\ [updated EXCEPT !.last_update_timestamp = now].last_update_timestamp = now
        BY <2>4 DEF DynamicFeeState
    <2> HIDE DEF updated
    <2>7. UpdatePostSwap(dyn, old, new, now)
            \in {updated, [updated EXCEPT !.last_update_timestamp = now]}
        BY <1>2, <2>5 DEF UpdatePostSwap
    <2> QED
        BY <2>6, <2>7
<1> QED
    BY <1>1, <1>2
-----------------------------------------------------------------------------
LEMMA InitType == Init => TypeInv
<1> SUFFICES ASSUME NEW p \in PositionId, NEW sqrt_price \in InitialSqrtPrices,
                    NEW liquidity \in LiquidityDeltas, InitializePool(p, sqrt_price, liquidity)
             PROVE  TypeInv
    BY DEF Init
<1>1. /\ sqrt_price \in SqrtMinPrice .. SqrtMaxPrice /\ liquidity \in Nat /\ StartTime \in Nat
    BY CpAmmAssumption
<1>2. sqrt_price \in Nat
    BY <1>1, PriceTypes
<1>3. clock \in Nat
    BY <1>1 DEF InitializePool
<1>4. pool \in PoolState
    BY <1>1, <1>2 DEF InitializePool, PoolState, NoTokens, InitialDynamicFeeState, DynamicFeeState
<1>5. rewards \in [RewardIndex -> RewardInfo] /\ RewardsHaveDuration
    BY DEF InitializePool, NoReward, RewardInfo, RewardsHaveDuration
<1>6. DOMAIN positions \subseteq PositionId /\ positions \in [DOMAIN positions -> PositionState]
    BY <1>1, NewPositionType DEF InitializePool
<1>7. DOMAIN vestings \subseteq VestingId /\ vestings \in [DOMAIN vestings -> VestingState]
    BY DEF InitializePool
<1>8. vault \in [Token -> Nat]
    <2> DEFINE amounts == GetAmountsUp(sqrt_price, liquidity)
    <2>1. amounts \in [Token -> Nat]
        BY <1>1, AmountsUpType
    <2>2. vault \in InitialVaults(amounts)
        BY DEF InitializePool
    <2> HIDE DEF amounts
    <2> QED
        BY <2>1, <2>2 DEF InitialVaults
<1>9. rewardVault \in [RewardIndex -> Nat] /\ rewardVaultFrozen \in [RewardIndex -> BOOLEAN]
    BY DEF InitializePool
<1>10. PriceInRange
    BY <1>1 DEF InitializePool, PriceInRange
<1> QED
    BY <1>3, <1>4, <1>5, <1>6, <1>7, <1>8, <1>9, <1>10 DEF TypeInv, TypeOK

LEMMA StutterType ==
    ASSUME TypeInv, UNCHANGED vars
    PROVE  TypeInv'
BY DEF TypeInv, TypeOK, PriceInRange, RewardsHaveDuration, vars

LEMMA TickType ==
    ASSUME TypeInv, Tick
    PROVE  TypeInv'
BY DEF TypeInv, TypeOK, PriceInRange, RewardsHaveDuration, Tick

LEMMA FreezeRewardVaultType ==
    ASSUME TypeInv, NEW i \in RewardIndex, FreezeRewardVault(i)
    PROVE  TypeInv'
BY DEF TypeInv, TypeOK, PriceInRange, RewardsHaveDuration, FreezeRewardVault

LEMMA SetPoolStatusType ==
    ASSUME TypeInv, SetPoolStatus
    PROVE  TypeInv'
<1>1. pool' \in PoolState /\ pool'.sqrt_price = pool.sqrt_price
    BY DEF TypeInv, TypeOK, SetPoolStatus, PoolState
<1> QED
    BY <1>1 DEF TypeInv, TypeOK, PriceInRange, RewardsHaveDuration, SetPoolStatus
-----------------------------------------------------------------------------
LEMMA CreatePositionType ==
    ASSUME TypeInv, NEW p \in PositionId, CreatePosition(p)
    PROVE  TypeInv'
<1>1. pool' \in PoolState /\ pool'.sqrt_price = pool.sqrt_price
    BY DEF TypeInv, TypeOK, CreatePosition, PoolState
<1>2. DOMAIN positions' \subseteq PositionId /\ positions' \in [DOMAIN positions' -> PositionState]
    <2>1. NewPosition(0) \in PositionState
        BY NewPositionType
    <2> QED
        BY <2>1 DEF TypeInv, TypeOK, CreatePosition, Put
<1> QED
    BY <1>1, <1>2 DEF TypeInv, TypeOK, PriceInRange, RewardsHaveDuration, CreatePosition

LEMMA ClosePositionType ==
    ASSUME TypeInv, NEW p \in PositionId, ClosePosition(p)
    PROVE  TypeInv'
<1>1. pool' \in PoolState /\ pool'.sqrt_price = pool.sqrt_price
    BY DEF TypeInv, TypeOK, ClosePosition, PoolState
<1>2. DOMAIN positions' \subseteq PositionId /\ positions' \in [DOMAIN positions' -> PositionState]
    BY DropType DEF TypeInv, TypeOK, ClosePosition
<1> QED
    BY <1>1, <1>2 DEF TypeInv, TypeOK, PriceInRange, RewardsHaveDuration, ClosePosition

(* What settling a position after update_rewards gives, in the terms of the  *)
(* actions: the rewards' of the step are the updated rewards.                *)
LEMMA SettledType ==
    ASSUME TypeOK, CanUpdateRewards, rewards' = UpdatedRewards,
           NEW p \in DOMAIN positions, CanSettle(p)
    PROVE  /\ Settled(p) \in PositionState
           /\ Settled(p).fee_checkpoint = pool.fee_per_liquidity
           /\ \A i \in RewardIndex :
                 Settled(p).reward_checkpoint[i] =
                     IF rewards'[i].initialized THEN rewards'[i].reward_per_token_stored
                                                ELSE positions[p].reward_checkpoint[i]
           /\ Settled(p).unlocked_liquidity = positions[p].unlocked_liquidity
           /\ Settled(p).vested_liquidity = positions[p].vested_liquidity
<1>1. positions[p] \in PositionState /\ pool.fee_per_liquidity \in [Token -> Nat]
    BY DEF TypeOK, PoolState
<1>2. rewards' \in [RewardIndex -> RewardInfo]
    BY UpdatedRewardsType
<1>3. /\ CanUpdatePositionReward(positions[p], rewards')
      /\ CanUpdateFee(positions[p], pool.fee_per_liquidity)
    BY DEF CanSettle
<1> QED
    BY <1>1, <1>2, <1>3, SettleType DEF Settled

(* The part of the invariant on rewards, for the actions that only update    *)
(* them.                                                                     *)
LEMMA UpdatedRewardsKeepDuration ==
    ASSUME TypeInv, CanUpdateRewards, rewards' = UpdatedRewards
    PROVE  rewards' \in [RewardIndex -> RewardInfo] /\ RewardsHaveDuration'
BY UpdatedRewardsType DEF TypeInv, RewardsHaveDuration

LEMMA AddLiquidityType ==
    ASSUME TypeInv, NEW p \in PositionId, NEW liquidity_delta \in Nat, NEW threshold,
           AddLiquidity(p, liquidity_delta, threshold)
    PROVE  TypeInv'
<1>1. rewards' \in [RewardIndex -> RewardInfo] /\ RewardsHaveDuration'
    BY UpdatedRewardsKeepDuration DEF AddLiquidity
<1>2. pool' \in PoolState /\ pool'.sqrt_price = pool.sqrt_price
    BY DEF TypeInv, TypeOK, AddLiquidity, PoolState
<1>3. vault' \in [Token -> Nat]
    <2>1. GetAmountsUp(pool.sqrt_price, liquidity_delta) \in [Token -> Nat]
        BY AmountsUpType DEF TypeInv, PriceInRange
    <2> QED
        BY <2>1, ReceivedType DEF TypeInv, TypeOK, AddLiquidity
<1>4. DOMAIN positions' \subseteq PositionId /\ positions' \in [DOMAIN positions' -> PositionState]
    <2>1. p \in DOMAIN positions /\ Settled(p) \in PositionState
        BY SettledType DEF TypeInv, AddLiquidity
    <2>2. AddLiquidityTo(Settled(p), liquidity_delta) \in PositionState
        BY <2>1, AddLiquidityToType
    <2> QED
        BY <2>1, <2>2, ExceptType DEF TypeInv, TypeOK, AddLiquidity
<1> QED
    BY <1>1, <1>2, <1>3, <1>4 DEF TypeInv, TypeOK, PriceInRange, AddLiquidity

LEMMA RemoveLiquidityType ==
    ASSUME TypeInv, NEW p \in PositionId, NEW liquidity_delta \in Nat, NEW threshold,
           RemoveLiquidity(p, liquidity_delta, threshold)
    PROVE  TypeInv'
<1>1. rewards' \in [RewardIndex -> RewardInfo] /\ RewardsHaveDuration'
    BY UpdatedRewardsKeepDuration DEF RemoveLiquidity
<1>2. pool' \in PoolState /\ pool'.sqrt_price = pool.sqrt_price
    <2>1. pool.liquidity - liquidity_delta \in Nat
        BY DEF TypeInv, TypeOK, RemoveLiquidity, PoolState
    <2> QED
        BY <2>1 DEF TypeInv, TypeOK, RemoveLiquidity, PoolState
<1>3. vault' \in [Token -> Nat]
    <2>1. GetAmountsDown(liquidity_delta) \in [Token -> Nat]
        BY AmountsDownType DEF TypeInv, PriceInRange
    <2> QED
        BY <2>1, PaidType DEF TypeInv, TypeOK, RemoveLiquidity
<1>4. DOMAIN positions' \subseteq PositionId /\ positions' \in [DOMAIN positions' -> PositionState]
    <2>1. /\ p \in DOMAIN positions /\ Settled(p) \in PositionState
          /\ Settled(p).unlocked_liquidity = positions[p].unlocked_liquidity
        BY SettledType DEF TypeInv, RemoveLiquidity
    <2>2. RemoveUnlockedLiquidity(Settled(p), liquidity_delta) \in PositionState
        BY <2>1, RemoveUnlockedLiquidityType DEF RemoveLiquidity
    <2> QED
        BY <2>1, <2>2, ExceptType DEF TypeInv, TypeOK, RemoveLiquidity
<1> QED
    BY <1>1, <1>2, <1>3, <1>4 DEF TypeInv, TypeOK, PriceInRange, RemoveLiquidity

LEMMA ClaimPositionFeeType ==
    ASSUME TypeInv, NEW p \in PositionId, ClaimPositionFee(p)
    PROVE  TypeInv'
<1> DEFINE updated == UpdateFee(positions[p], pool.fee_per_liquidity)
<1>1. p \in DOMAIN positions /\ updated \in PositionState
    <2>1. /\ p \in DOMAIN positions /\ positions[p] \in PositionState
          /\ pool.fee_per_liquidity \in [Token -> Nat]
          /\ CanUpdateFee(positions[p], pool.fee_per_liquidity)
        BY DEF TypeInv, TypeOK, ClaimPositionFee, PoolState
    <2> QED
        BY <2>1, UpdateFeeType
<1>2. /\ CanPay(updated.fee_pending)
      /\ vault' = Paid(updated.fee_pending)
      /\ positions' = [positions EXCEPT ![p] = [updated EXCEPT !.fee_pending = NoTokens]]
    BY DEF ClaimPositionFee
<1> HIDE DEF updated
<1>3. vault' \in [Token -> Nat]
    <2>1. updated.fee_pending \in [Token -> Nat]
        BY <1>1 DEF PositionState
    <2> QED
        BY <1>2, <2>1, PaidType DEF TypeInv, TypeOK
<1>4. DOMAIN positions' \subseteq PositionId /\ positions' \in [DOMAIN positions' -> PositionState]
    <2>1. [updated EXCEPT !.fee_pending = NoTokens] \in PositionState
        BY <1>1 DEF PositionState, NoTokens
    <2> QED
        BY <1>1, <1>2, <2>1, ExceptType DEF TypeInv, TypeOK
<1> QED
    BY <1>3, <1>4 DEF TypeInv, TypeOK, PriceInRange, RewardsHaveDuration, ClaimPositionFee
-----------------------------------------------------------------------------
(* Swap is stated on the two values its handler computes.                    *)
LEMMA SwapComputes ==
    ASSUME TypeInv, NEW amount_in \in Nat, NEW a_for_b \in BOOLEAN, NEW has_referral \in BOOLEAN,
           NEW is_whitelisted_vault, NEW minimum_amount_out,
           Swap(amount_in, a_for_b, has_referral, is_whitelisted_vault, minimum_amount_out)
    PROVE  \E dyn \in DynamicFeeState, result \in SwapResults :
              /\ dyn = UpdatePreSwap(pool.dynamic, pool.sqrt_price, clock)
              /\ DynamicFee.enabled => dyn.sqrt_price_reference > 0
              /\ result.next_sqrt_price \in SqrtMinPrice .. SqrtMaxPrice
              /\ pool' = ApplySwapResult(dyn, result, a_for_b)
              /\ vault' = SwapTransfers(amount_in, result, a_for_b)
<1> DEFINE dyn    == UpdatePreSwap(pool.dynamic, pool.sqrt_price, clock)
           result == GetSwapResult(pool.sqrt_price, pool.liquidity, dyn, amount_in, a_for_b,
                                   has_referral, clock)
<1>1. /\ pool.dynamic \in DynamicFeeState /\ clock \in Nat
      /\ pool.sqrt_price \in Nat \ {0} /\ pool.liquidity \in Nat \ {0}
    <2>1. pool.dynamic \in DynamicFeeState /\ clock \in Nat /\ pool.liquidity \in Nat \ {0}
        BY DEF TypeInv, TypeOK, PoolState, Swap
    <2> QED
        BY <2>1, PriceTypes DEF TypeInv, PriceInRange
<1>2. dyn \in DynamicFeeState
    BY <1>1, PreSwapType
<1>3. DynamicFee.enabled => dyn.sqrt_price_reference > 0
    BY DEF Swap, VolatilityReferenceUsable
<1>4. /\ PriceAfterIsValid(result.next_sqrt_price, a_for_b)
      /\ pool' = ApplySwapResult(dyn, result, a_for_b)
      /\ vault' = SwapTransfers(amount_in, result, a_for_b)
    BY DEF Swap
<1> HIDE DEF dyn
<1>5. /\ result \in SwapResults
      /\ IF a_for_b THEN result.next_sqrt_price <= pool.sqrt_price
                    ELSE result.next_sqrt_price >= pool.sqrt_price
    BY <1>1, <1>2, SwapResultType
<1> HIDE DEF result
<1>6. result.next_sqrt_price \in SqrtMinPrice .. SqrtMaxPrice
    <2>1. result.next_sqrt_price \in Nat
        BY <1>5 DEF SwapResults
    <2> QED
        BY <1>4, <1>5, <2>1, PriceStaysInRange DEF TypeInv, PriceInRange
<1>7. dyn = UpdatePreSwap(pool.dynamic, pool.sqrt_price, clock)
    BY DEF dyn
<1> QED
    BY <1>2, <1>3, <1>4, <1>5, <1>6, <1>7

(* apply_swap_result: the price moves, accumulators and fees only grow.      *)
LEMMA ApplySwapResultType ==
    ASSUME TypeInv, NEW dyn \in DynamicFeeState, NEW result \in SwapResults,
           NEW a_for_b \in BOOLEAN, pool.liquidity > 0,
           DynamicFee.enabled => dyn.sqrt_price_reference > 0,
           result.next_sqrt_price \in SqrtMinPrice .. SqrtMaxPrice
    PROVE  LET applied == ApplySwapResult(dyn, result, a_for_b)
           IN  /\ applied \in PoolState
               /\ applied.sqrt_price = result.next_sqrt_price
               /\ \A t \in Token : applied.fee_per_liquidity[t] >= pool.fee_per_liquidity[t]
               /\ applied.dynamic.sqrt_price_reference = dyn.sqrt_price_reference
               /\ applied.dynamic.last_update_timestamp \in {dyn.last_update_timestamp, clock}
               /\ applied.total_position = pool.total_position
<1> DEFINE t       == FeeToken(a_for_b)
           growth  == MulDivDown(result.lp_fee, LIQUIDITY_SCALE, pool.liquidity)
           dynamic == UpdatePostSwap(dyn, pool.sqrt_price, result.next_sqrt_price, clock)
           fpl     == [pool.fee_per_liquidity EXCEPT ![t] = @ + growth]
           protocol == [pool.protocol_fee EXCEPT ![t] = @ + result.protocol_fee]
           partner  == [pool.partner_fee EXCEPT ![t] = @ + result.partner_fee]
<1>1. /\ pool \in PoolState /\ pool.liquidity \in Nat \ {0} /\ clock \in Nat
      /\ pool.fee_per_liquidity \in [Token -> Nat] /\ pool.protocol_fee \in [Token -> Nat]
      /\ pool.partner_fee \in [Token -> Nat] /\ pool.sqrt_price \in Nat
    BY DEF TypeInv, TypeOK, PoolState
<1>2. t \in Token
    BY DEF FeeToken, Token
<1>3. result.lp_fee \in Nat /\ result.protocol_fee \in Nat /\ result.partner_fee \in Nat
    BY DEF SwapResults
<1>4. growth \in Nat
    BY <1>1, <1>3, MulDivDownType, ScaleTypes
<1>5. /\ dynamic \in DynamicFeeState
      /\ dynamic.sqrt_price_reference = dyn.sqrt_price_reference
      /\ dynamic.last_update_timestamp \in {dyn.last_update_timestamp, clock}
    <2>1. pool.sqrt_price \in Nat \ {0} /\ result.next_sqrt_price \in Nat \ {0}
        BY PriceTypes DEF TypeInv, PriceInRange
    <2> QED
        BY <1>1, <2>1, PostSwapType
<1>6. ApplySwapResult(dyn, result, a_for_b)
        = [pool EXCEPT !.sqrt_price = result.next_sqrt_price, !.fee_per_liquidity = fpl,
                       !.protocol_fee = protocol, !.partner_fee = partner, !.dynamic = dynamic]
    BY <1>1 DEF ApplySwapResult, PoolState
<1> HIDE DEF t, growth, dynamic
<1>7. /\ fpl \in [Token -> Nat] /\ protocol \in [Token -> Nat] /\ partner \in [Token -> Nat]
      /\ \A x \in Token : fpl[x] >= pool.fee_per_liquidity[x]
    BY <1>1, <1>2, <1>3, <1>4
<1>8. result.next_sqrt_price \in Nat
    BY DEF SwapResults
<1> HIDE DEF fpl, protocol, partner
<1> DEFINE applied == ApplySwapResult(dyn, result, a_for_b)
<1>9. applied \in PoolState
    BY <1>1, <1>5, <1>6, <1>7, <1>8 DEF PoolState
<1>10. /\ applied.sqrt_price = result.next_sqrt_price /\ applied.fee_per_liquidity = fpl
       /\ applied.dynamic = dynamic /\ applied.total_position = pool.total_position
    BY <1>1, <1>6 DEF PoolState
<1> QED
    BY <1>5, <1>7, <1>9, <1>10, Zenon

LEMMA SwapType ==
    ASSUME TypeInv, NEW amount_in \in Nat, NEW a_for_b \in BOOLEAN, NEW has_referral \in BOOLEAN,
           NEW is_whitelisted_vault, NEW minimum_amount_out,
           Swap(amount_in, a_for_b, has_referral, is_whitelisted_vault, minimum_amount_out)
    PROVE  TypeInv'
<1>1. PICK dyn \in DynamicFeeState, result \in SwapResults :
              /\ DynamicFee.enabled => dyn.sqrt_price_reference > 0
              /\ result.next_sqrt_price \in SqrtMinPrice .. SqrtMaxPrice
              /\ pool' = ApplySwapResult(dyn, result, a_for_b)
              /\ vault' = SwapTransfers(amount_in, result, a_for_b)
    BY SwapComputes
<1>2. pool.liquidity > 0
    BY DEF Swap
<1>3. pool' \in PoolState /\ PriceInRange'
    BY <1>1, <1>2, ApplySwapResultType DEF PriceInRange
<1>4. vault' \in [Token -> Nat]
    <2>1. /\ result.output_amount \in Nat /\ result.referral_fee \in Nat
          /\ vault \in [Token -> Nat]
        BY DEF SwapResults, TypeInv, TypeOK
    <2>2. vault' \in [Token -> Int]
        BY <1>1, <2>1 DEF SwapTransfers
    <2>3. \A t \in Token : vault'[t] >= 0
        BY DEF Swap
    <2> QED
        BY <2>2, <2>3
<1> QED
    BY <1>3, <1>4 DEF TypeInv, TypeOK, RewardsHaveDuration, Swap

LEMMA ClaimProtocolFeeType ==
    ASSUME TypeInv, NEW max_amount \in [Token -> Nat], ClaimProtocolFee(max_amount)
    PROVE  TypeInv'
<1> DEFINE claimed == [t \in Token |-> CapAt(pool.protocol_fee[t], max_amount[t])]
           left == [t \in Token |-> pool.protocol_fee[t] - claimed[t]]
<1>1. pool.protocol_fee \in [Token -> Nat]
    BY DEF TypeInv, TypeOK, PoolState
<1>2. claimed \in [Token -> Nat] /\ \A t \in Token : claimed[t] <= pool.protocol_fee[t]
    BY <1>1 DEF CapAt
<1>3. CanPay(claimed) /\ vault' = Paid(claimed) /\ pool' = [pool EXCEPT !.protocol_fee = left]
    BY DEF ClaimProtocolFee
<1> HIDE DEF claimed
<1>4. left \in [Token -> Nat]
    BY <1>1, <1>2
<1> HIDE DEF left
<1>5. pool' \in PoolState /\ pool'.sqrt_price = pool.sqrt_price
    BY <1>3, <1>4 DEF TypeInv, TypeOK, PoolState
<1>6. vault' \in [Token -> Nat]
    BY <1>2, <1>3, PaidType DEF TypeInv, TypeOK
<1> QED
    BY <1>5, <1>6 DEF TypeInv, TypeOK, PriceInRange, RewardsHaveDuration, ClaimProtocolFee

LEMMA ClaimPartnerFeeType ==
    ASSUME TypeInv, NEW max_amount \in [Token -> Nat], ClaimPartnerFee(max_amount)
    PROVE  TypeInv'
<1> DEFINE claimed == [t \in Token |-> CapAt(pool.partner_fee[t], max_amount[t])]
           left == [t \in Token |-> pool.partner_fee[t] - claimed[t]]
<1>1. pool.partner_fee \in [Token -> Nat]
    BY DEF TypeInv, TypeOK, PoolState
<1>2. claimed \in [Token -> Nat] /\ \A t \in Token : claimed[t] <= pool.partner_fee[t]
    BY <1>1 DEF CapAt
<1>3. CanPay(claimed) /\ vault' = Paid(claimed) /\ pool' = [pool EXCEPT !.partner_fee = left]
    BY DEF ClaimPartnerFee
<1> HIDE DEF claimed
<1>4. left \in [Token -> Nat]
    BY <1>1, <1>2
<1> HIDE DEF left
<1>5. pool' \in PoolState /\ pool'.sqrt_price = pool.sqrt_price
    BY <1>3, <1>4 DEF TypeInv, TypeOK, PoolState
<1>6. vault' \in [Token -> Nat]
    BY <1>2, <1>3, PaidType DEF TypeInv, TypeOK
<1> QED
    BY <1>5, <1>6 DEF TypeInv, TypeOK, PriceInRange, RewardsHaveDuration, ClaimPartnerFee
-----------------------------------------------------------------------------
LEMMA TotalLockType ==
    ASSUME NEW schedule, schedule.cliff_unlock_liquidity \in Nat,
           schedule.liquidity_per_period \in Nat, schedule.number_of_period \in Nat
    PROVE  GetTotalLockAmount(schedule) \in Nat
<1>1. schedule.liquidity_per_period * schedule.number_of_period \in Nat
    OBVIOUS
<1> QED
    BY <1>1 DEF GetTotalLockAmount

LEMMA LockPositionType ==
    ASSUME TypeInv, NEW p \in PositionId, NEW v \in VestingId,
           NEW params \in VestingParameters, NEW cliff_point \in Nat,
           LockPosition(p, v, params, cliff_point)
    PROVE  TypeInv'
<1>1. GetTotalLockAmount(params) \in Nat
    BY TotalLockType DEF VestingParameters
<1>2. DOMAIN positions' \subseteq PositionId /\ positions' \in [DOMAIN positions' -> PositionState]
    <2>1. /\ p \in DOMAIN positions /\ positions[p] \in PositionState
          /\ GetTotalLockAmount(params) <= positions[p].unlocked_liquidity
        BY <1>1 DEF TypeInv, TypeOK, LockPosition, PositionState
    <2>2. Lock(positions[p], GetTotalLockAmount(params)) \in PositionState
        BY <1>1, <2>1, LockType
    <2> QED
        BY <2>1, <2>2, ExceptType DEF TypeInv, TypeOK, LockPosition
<1>3. DOMAIN vestings' \subseteq VestingId /\ vestings' \in [DOMAIN vestings' -> VestingState]
    <2>1. NewVesting(p, cliff_point, params) \in VestingState
        BY DEF NewVesting, VestingState, VestingParameters
    <2> QED
        BY <2>1 DEF TypeInv, TypeOK, LockPosition, Put
<1> QED
    BY <1>2, <1>3 DEF TypeInv, TypeOK, PriceInRange, RewardsHaveDuration, LockPosition

(* A schedule never unlocks a negative amount nor more than was locked.      *)
LEMMA MaxUnlockedType ==
    ASSUME NEW vesting \in VestingState, NEW now \in Nat
    PROVE  /\ GetMaxUnlockedLiquidity(vesting, now) \in Nat
           /\ GetMaxUnlockedLiquidity(vesting, now) <= GetTotalLockAmount(vesting)
<1> DEFINE elapsed == (now - vesting.cliff_point) \div vesting.period_frequency
           number  == vesting.number_of_period
           amount  == vesting.liquidity_per_period
           cliff   == vesting.cliff_unlock_liquidity
           period  == IF elapsed < number THEN elapsed ELSE number
<1>1. /\ number \in Nat /\ amount \in Nat /\ cliff \in Nat
      /\ vesting.cliff_point \in Nat /\ vesting.period_frequency \in Nat
    BY DEF VestingState
<1>2. amount * number \in Nat
    BY <1>1
<1>3. GetTotalLockAmount(vesting) = cliff + amount * number
    BY DEF GetTotalLockAmount
<1>4. CASE now < vesting.cliff_point
    BY <1>1, <1>2, <1>3, <1>4 DEF GetMaxUnlockedLiquidity
<1>5. CASE now >= vesting.cliff_point /\ vesting.period_frequency = 0
    <2>1. GetMaxUnlockedLiquidity(vesting, now) = cliff
        BY <1>1, <1>5 DEF GetMaxUnlockedLiquidity
    <2> QED
        BY <1>1, <1>2, <1>3, <2>1
<1>6. CASE now >= vesting.cliff_point /\ vesting.period_frequency # 0
    <2>1. elapsed \in Nat
        BY <1>1, <1>6
    <2>2. GetMaxUnlockedLiquidity(vesting, now) = cliff + period * amount
        BY <1>1, <1>6 DEF GetMaxUnlockedLiquidity
    <2> HIDE DEF elapsed, number, amount, cliff
    <2>3. period \in Nat /\ period <= number
        BY <1>1, <2>1
    <2> HIDE DEF period
    <2>4. period * amount \in Nat /\ period * amount <= amount * number
        BY <1>1, <2>3
    <2> QED
        BY <1>1, <1>2, <1>3, <2>2, <2>4
<1> QED
    BY <1>1, <1>4, <1>5, <1>6

LEMMA RefreshVestingType ==
    ASSUME TypeInv, NEW v \in VestingId, RefreshVesting(v)
    PROVE  TypeInv'
<1> DEFINE p        == vestings[v].position
           released == GetNewReleaseLiquidity(vestings[v], clock)
           updated  == AccumulateReleasedLiquidity(vestings[v], released)
<1>1. /\ v \in DOMAIN vestings /\ vestings[v] \in VestingState /\ clock \in Nat
      /\ p \in DOMAIN positions /\ positions[p] \in PositionState
      /\ released >= 0 /\ released <= positions[p].vested_liquidity
      /\ positions' = [positions EXCEPT ![p] = ReleaseVestedLiquidity(positions[p], released)]
      /\ vestings' = IF Done(updated) THEN Drop(vestings, v) ELSE [vestings EXCEPT ![v] = updated]
    BY DEF TypeInv, TypeOK, RefreshVesting
<1>2. vestings[v].total_released_liquidity \in Nat
    BY <1>1 DEF VestingState
<1>3. released \in Nat
    BY <1>1, <1>2, MaxUnlockedType DEF GetNewReleaseLiquidity
<1> HIDE DEF released
<1>4. updated \in VestingState
    <2>1. vestings[v].total_released_liquidity + released \in Nat
        BY <1>2, <1>3
    <2> QED
        BY <1>1, <2>1 DEF AccumulateReleasedLiquidity, VestingState
<1> HIDE DEF updated
<1>5. DOMAIN positions' \subseteq PositionId /\ positions' \in [DOMAIN positions' -> PositionState]
    <2>1. ReleaseVestedLiquidity(positions[p], released) \in PositionState
        BY <1>1, <1>3, ReleaseVestedLiquidityType
    <2> HIDE DEF p
    <2> QED
        BY <1>1, <2>1, ExceptType DEF TypeInv, TypeOK
<1>6. DOMAIN vestings' \subseteq VestingId /\ vestings' \in [DOMAIN vestings' -> VestingState]
    BY <1>1, <1>4 DEF TypeInv, TypeOK, Drop
<1> QED
    BY <1>5, <1>6 DEF TypeInv, TypeOK, PriceInRange, RewardsHaveDuration, RefreshVesting

LEMMA PermanentLockPositionType ==
    ASSUME TypeInv, NEW p \in PositionId, NEW amount \in Nat, PermanentLockPosition(p, amount)
    PROVE  TypeInv'
<1>1. pool' \in PoolState /\ pool'.sqrt_price = pool.sqrt_price
    BY DEF TypeInv, TypeOK, PermanentLockPosition, PoolState
<1>2. DOMAIN positions' \subseteq PositionId /\ positions' \in [DOMAIN positions' -> PositionState]
    <2>1. /\ p \in DOMAIN positions /\ positions[p] \in PositionState
          /\ amount <= positions[p].unlocked_liquidity
        BY DEF TypeInv, TypeOK, PermanentLockPosition, PositionState
    <2>2. PermanentLockLiquidity(positions[p], amount) \in PositionState
        BY <2>1, PermanentLockLiquidityType
    <2> QED
        BY <2>1, <2>2, ExceptType DEF TypeInv, TypeOK, PermanentLockPosition
<1> QED
    BY <1>1, <1>2 DEF TypeInv, TypeOK, PriceInRange, RewardsHaveDuration, PermanentLockPosition

(* What a split computes: both positions settled, a share of the first.      *)
LEMMA SplitComputes ==
    ASSUME TypeInv, NEW first \in PositionId, NEW second \in PositionId,
           NEW numerators \in SplitParameters, SplitPosition(first, second, numerators)
    PROVE  \E share \in Shares :
              /\ TakeShare(Settled(first), share) \in PositionState
              /\ TakeShare(Settled(first), share).fee_checkpoint = Settled(first).fee_checkpoint
              /\ TakeShare(Settled(first), share).reward_checkpoint
                    = Settled(first).reward_checkpoint
              /\ positions' = [positions EXCEPT
                    ![first] = TakeShare(Settled(first), share),
                    ![second] = GiveShare(Settled(second), share)]
<1> DEFINE share == SplitShare(Settled(first), numerators, rewards')
<1>1. Settled(first) \in PositionState
    BY SettledType DEF TypeInv, SplitPosition
<1>2. numerators \in Numerators
    BY DEF SplitParameters, Numerators, Numerator
<1>3. share \in Shares /\ ShareIsWithin(share, Settled(first))
    BY <1>1, <1>2, SplitShareType
<1>4. positions' = [positions EXCEPT ![first] = TakeShare(Settled(first), share),
                                     ![second] = GiveShare(Settled(second), share)]
    BY DEF SplitPosition
<1> HIDE DEF share
<1> QED
    BY <1>1, <1>3, <1>4, TakeShareType

LEMMA SplitPositionType ==
    ASSUME TypeInv, NEW first \in PositionId, NEW second \in PositionId,
           NEW numerators \in SplitParameters, SplitPosition(first, second, numerators)
    PROVE  TypeInv'
<1>1. rewards' \in [RewardIndex -> RewardInfo] /\ RewardsHaveDuration'
    BY UpdatedRewardsKeepDuration DEF SplitPosition
<1>2. PICK share \in Shares :
              /\ TakeShare(Settled(first), share) \in PositionState
              /\ positions' = [positions EXCEPT
                    ![first] = TakeShare(Settled(first), share),
                    ![second] = GiveShare(Settled(second), share)]
    BY SplitComputes
<1>3. /\ first \in DOMAIN positions /\ second \in DOMAIN positions
      /\ GiveShare(Settled(second), share) \in PositionState
    <2>1. second \in DOMAIN positions /\ Settled(second) \in PositionState
        BY SettledType DEF TypeInv, SplitPosition
    <2> QED
        BY <2>1, GiveShareType DEF SplitPosition
<1>4. DOMAIN positions' \subseteq PositionId /\ positions' \in [DOMAIN positions' -> PositionState]
    BY <1>2, <1>3 DEF TypeInv, TypeOK
<1> QED
    BY <1>1, <1>4 DEF TypeInv, TypeOK, PriceInRange, SplitPosition
-----------------------------------------------------------------------------
LEMMA InitializeRewardType ==
    ASSUME TypeInv, NEW i \in RewardIndex, NEW signer, NEW funder \in Key, NEW duration \in Nat,
           InitializeReward(i, signer, funder, duration)
    PROVE  TypeInv'
<1>1. duration > 0
    BY CpAmmAssumption DEF InitializeReward
<1>2. InitReward(rewards[i], funder, duration) \in RewardInfo
    <2>1. rewards[i] \in RewardInfo
        BY DEF TypeInv, TypeOK
    <2> QED
        BY <2>1 DEF InitReward, RewardInfo
<1>3. InitReward(rewards[i], funder, duration).reward_duration = duration
    BY DEF InitReward, RewardInfo, TypeInv, TypeOK
<1>4. rewards' \in [RewardIndex -> RewardInfo] /\ RewardsHaveDuration'
    BY <1>1, <1>2, <1>3 DEF TypeInv, TypeOK, RewardsHaveDuration, InitializeReward
<1> QED
    BY <1>4 DEF TypeInv, TypeOK, PriceInRange, InitializeReward

(* fund_reward: the funded reward, and the others only updated.              *)
LEMMA FundRewardComputes ==
    ASSUME TypeInv, NEW i \in RewardIndex, NEW signer, NEW amount \in Nat,
           NEW carry_forward \in BOOLEAN, FundReward(i, signer, amount, carry_forward)
    PROVE  \E funded \in RewardInfo :
              /\ rewards' = [UpdatedRewards EXCEPT ![i] = funded]
              /\ funded.reward_duration = rewards[i].reward_duration
              /\ funded.reward_per_token_stored = UpdatedRewards[i].reward_per_token_stored
              /\ funded.last_update_time = clock
              /\ funded.last_update_time <= funded.reward_duration_end
<1> DEFINE updated == UpdatedRewards[i]
           reset   == ResetEmptySeconds(updated)
           carried == amount + IneligibleReward(updated)
           funded  == IF carry_forward THEN UpdateRateAfterFunding(reset, clock, carried)
                                       ELSE UpdateRateAfterFunding(updated, clock, amount)
<1>1. /\ updated \in RewardInfo /\ clock \in Nat
      /\ updated.reward_duration = rewards[i].reward_duration /\ updated.reward_duration > 0
      /\ UpdatedRewards \in [RewardIndex -> RewardInfo]
    BY UpdatedRewardsType DEF TypeInv, TypeOK, RewardsHaveDuration, FundReward
<1>2. rewards' = [UpdatedRewards EXCEPT ![i] = funded]
    BY <1>1 DEF FundReward
<1> HIDE DEF updated
<1>3. /\ reset \in RewardInfo /\ reset.reward_duration = updated.reward_duration
      /\ reset.reward_per_token_stored = updated.reward_per_token_stored
    BY <1>1, ResetEmptySecondsType
<1>4. carried \in Nat
    BY <1>1, IneligibleRewardType
<1> HIDE DEF reset, carried
<1>5. /\ funded \in RewardInfo
      /\ funded.reward_duration = rewards[i].reward_duration
      /\ funded.reward_per_token_stored = updated.reward_per_token_stored
      /\ funded.last_update_time = clock
      /\ funded.last_update_time <= funded.reward_duration_end
    <2>1. CASE carry_forward
        BY <1>1, <1>3, <1>4, <2>1, UpdateRateAfterFundingType
    <2>2. CASE ~carry_forward
        BY <1>1, <2>2, UpdateRateAfterFundingType
    <2> QED
        BY <2>1, <2>2
<1> HIDE DEF funded
<1> QED
    BY <1>2, <1>5 DEF updated

LEMMA FundRewardType ==
    ASSUME TypeInv, NEW i \in RewardIndex, NEW signer, NEW amount \in Nat,
           NEW carry_forward \in BOOLEAN, FundReward(i, signer, amount, carry_forward)
    PROVE  TypeInv'
<1>1. PICK funded \in RewardInfo :
              /\ rewards' = [UpdatedRewards EXCEPT ![i] = funded]
              /\ funded.reward_duration = rewards[i].reward_duration
    BY FundRewardComputes
<1>2. /\ UpdatedRewards \in [RewardIndex -> RewardInfo]
      /\ \A j \in RewardIndex :
            /\ UpdatedRewards[j].initialized = rewards[j].initialized
            /\ UpdatedRewards[j].reward_duration = rewards[j].reward_duration
    BY UpdatedRewardsType DEF TypeInv, FundReward
<1>3. rewards[i].initialized
    BY DEF FundReward
<1>4. rewards' \in [RewardIndex -> RewardInfo] /\ RewardsHaveDuration'
    BY <1>1, <1>2, <1>3 DEF TypeInv, RewardsHaveDuration
<1>5. rewardVault' \in [RewardIndex -> Nat]
    BY DEF TypeInv, TypeOK, FundReward
<1> QED
    BY <1>4, <1>5 DEF TypeInv, TypeOK, PriceInRange, FundReward

LEMMA ClaimRewardType ==
    ASSUME TypeInv, NEW p \in PositionId, NEW i \in RewardIndex, NEW skip_reward \in BOOLEAN,
           ClaimReward(p, i, skip_reward)
    PROVE  TypeInv'
<1> DEFINE updated == UpdatePositionReward(positions[p], rewards')
           payout  == IF rewardVaultFrozen[i] THEN 0 ELSE updated.reward_pending[i]
<1>1. rewards' \in [RewardIndex -> RewardInfo] /\ RewardsHaveDuration'
    BY UpdatedRewardsKeepDuration DEF ClaimReward
<1>2. p \in DOMAIN positions /\ positions[p] \in PositionState
    BY DEF ClaimReward, TypeInv, TypeOK
<1>3. updated \in PositionState
    BY <1>1, <1>2, UpdatePositionRewardType DEF ClaimReward
<1>4. /\ payout <= rewardVault[i]
      /\ positions' = [positions EXCEPT ![p] = [updated EXCEPT !.reward_pending[i] = 0]]
      /\ rewardVault' = [rewardVault EXCEPT ![i] = rewardVault[i] - payout]
    BY DEF ClaimReward
<1> HIDE DEF updated
<1>5. updated.reward_pending \in [RewardIndex -> Nat]
    BY <1>3 DEF PositionState
<1>6. [updated EXCEPT !.reward_pending[i] = 0] \in PositionState
    BY <1>3, <1>5 DEF PositionState
<1>7. payout \in Nat
    BY <1>5
<1> HIDE DEF payout
<1>8. rewardVault' \in [RewardIndex -> Nat]
    <2>1. rewardVault[i] - payout \in Nat
        BY <1>4, <1>7 DEF TypeInv, TypeOK
    <2> QED
        BY <1>4, <2>1 DEF TypeInv, TypeOK
<1>9. DOMAIN positions' \subseteq PositionId /\ positions' \in [DOMAIN positions' -> PositionState]
    BY <1>2, <1>4, <1>6, ExceptType DEF TypeInv, TypeOK
<1> QED
    BY <1>1, <1>8, <1>9 DEF TypeInv, TypeOK, PriceInRange, ClaimReward

LEMMA WithdrawIneligibleRewardType ==
    ASSUME TypeInv, NEW i \in RewardIndex, NEW signer, WithdrawIneligibleReward(i, signer)
    PROVE  TypeInv'
<1> DEFINE updated    == UpdatedRewards[i]
           ineligible == IneligibleReward(updated)
<1>1. /\ UpdatedRewards \in [RewardIndex -> RewardInfo]
      /\ \A j \in RewardIndex :
            /\ UpdatedRewards[j].initialized = rewards[j].initialized
            /\ UpdatedRewards[j].reward_duration = rewards[j].reward_duration
    BY UpdatedRewardsType DEF TypeInv, WithdrawIneligibleReward
<1>2. /\ ineligible > 0 => ineligible <= rewardVault[i]
      /\ rewards' = [UpdatedRewards EXCEPT ![i] = ResetEmptySeconds(updated)]
      /\ rewardVault' = [rewardVault EXCEPT ![i] = rewardVault[i] - ineligible]
    BY <1>1 DEF WithdrawIneligibleReward
<1>3. updated \in RewardInfo
    BY <1>1
<1> HIDE DEF updated
<1>4. ineligible \in Nat
    BY <1>3, IneligibleRewardType
<1> HIDE DEF ineligible
<1>5. /\ ResetEmptySeconds(updated) \in RewardInfo
      /\ ResetEmptySeconds(updated).initialized = updated.initialized
      /\ ResetEmptySeconds(updated).reward_duration = updated.reward_duration
    BY <1>3, ResetEmptySecondsType
<1>6. rewards' \in [RewardIndex -> RewardInfo] /\ RewardsHaveDuration'
    BY <1>1, <1>2, <1>5 DEF TypeInv, RewardsHaveDuration, updated
<1>7. rewardVault' \in [RewardIndex -> Nat]
    <2>1. rewardVault[i] - ineligible \in Nat
        BY <1>2, <1>4 DEF TypeInv, TypeOK
    <2> QED
        BY <1>2, <2>1 DEF TypeInv, TypeOK
<1> QED
    BY <1>6, <1>7 DEF TypeInv, TypeOK, PriceInRange, WithdrawIneligibleReward

LEMMA UpdateRewardDurationType ==
    ASSUME TypeInv, NEW i \in RewardIndex, NEW signer, NEW duration \in Nat,
           UpdateRewardDuration(i, signer, duration)
    PROVE  TypeInv'
<1>1. duration > 0
    BY CpAmmAssumption DEF UpdateRewardDuration
<1>2. rewards' \in [RewardIndex -> RewardInfo]
    BY DEF TypeInv, TypeOK, RewardInfo, UpdateRewardDuration
<1>3. RewardsHaveDuration'
    BY <1>1 DEF TypeInv, TypeOK, RewardInfo, RewardsHaveDuration, UpdateRewardDuration
<1> QED
    BY <1>2, <1>3 DEF TypeInv, TypeOK, PriceInRange, UpdateRewardDuration

LEMMA UpdateRewardFunderType ==
    ASSUME TypeInv, NEW i \in RewardIndex, NEW signer, NEW funder \in Key,
           UpdateRewardFunder(i, signer, funder)
    PROVE  TypeInv'
<1>1. rewards' \in [RewardIndex -> RewardInfo]
    BY DEF TypeInv, TypeOK, RewardInfo, UpdateRewardFunder
<1>2. RewardsHaveDuration'
    BY DEF TypeInv, TypeOK, RewardInfo, RewardsHaveDuration, UpdateRewardFunder
<1> QED
    BY <1>1, <1>2 DEF TypeInv, TypeOK, PriceInRange, UpdateRewardFunder
-----------------------------------------------------------------------------
(* The values callers pass have the types of the instruction arguments.      *)
LEMMA InputTypes ==
    /\ LiquidityDeltas \subseteq Nat /\ SwapAmounts \subseteq Nat /\ MaxFeeClaims \subseteq Nat
    /\ VestingParameterInputs \subseteq VestingParameters /\ CliffPoints \subseteq Nat
    /\ PermanentLockAmounts \subseteq Nat /\ SplitNumerators \subseteq SplitParameters
    /\ RewardDurations \subseteq Nat /\ FundingAmounts \subseteq Nat
BY CpAmmAssumption

LEMMA PositionInstructionCases ==
    ASSUME TypeInv, PositionInstruction
    PROVE  \E p \in PositionId :
              \/ CreatePosition(p)
              \/ ClosePosition(p)
              \/ ClaimPositionFee(p)
              \/ \E delta \in Nat : \E threshold : AddLiquidity(p, delta, threshold)
              \/ \E delta \in Nat : \E threshold : RemoveLiquidity(p, delta, threshold)
<1>1. \A p \in DOMAIN positions : positions[p].unlocked_liquidity \in Nat
    BY DEF TypeInv, TypeOK, PositionState
<1> QED
    BY <1>1, InputTypes DEF PositionInstruction

LEMMA PositionInstructionType ==
    ASSUME TypeInv, PositionInstruction
    PROVE  TypeInv'
BY PositionInstructionCases, CreatePositionType, ClosePositionType, ClaimPositionFeeType,
   AddLiquidityType, RemoveLiquidityType

LEMMA LockInstructionType ==
    ASSUME TypeInv, LockInstruction
    PROVE  TypeInv'
<1>1. clock \in Nat
    BY DEF TypeInv, TypeOK
<1> QED
    BY <1>1, InputTypes, LockPositionType, RefreshVestingType, PermanentLockPositionType,
       SplitPositionType DEF LockInstruction

LEMMA TradeInstructionType ==
    ASSUME TypeInv, TradeInstruction
    PROVE  TypeInv'
<1>1. \A max_amount \in [Token -> MaxFeeClaims] : max_amount \in [Token -> Nat]
    BY InputTypes
<1> QED
    BY <1>1, InputTypes, SwapType, ClaimProtocolFeeType, ClaimPartnerFeeType DEF TradeInstruction

LEMMA RewardInstructionType ==
    ASSUME TypeInv, RewardInstruction
    PROVE  TypeInv'
BY InputTypes, InitializeRewardType, FundRewardType, ClaimRewardType,
   WithdrawIneligibleRewardType, UpdateRewardDurationType, UpdateRewardFunderType,
   FreezeRewardVaultType DEF RewardInstruction

(* The invariant holds in every reachable state of the pool, whoever calls   *)
(* what in which order.                                                      *)
THEOREM TypeInvariance == Spec => []TypeInv
<1>1. Init => TypeInv
    BY InitType
<1>2. TypeInv /\ [Next]_vars => TypeInv'
    BY StutterType, TickType, PositionInstructionType, LockInstructionType,
       TradeInstructionType, RewardInstructionType, SetPoolStatusType DEF Next, Instruction
<1> QED
    BY <1>1, <1>2, PTL DEF Spec

(* Type correctness: no balance, liquidity, fee or reward of the pool, of a  *)
(* position or of a vault is ever driven below zero.                         *)
THEOREM TypeCorrect == Spec => []TypeOK
<1>1. TypeInv => TypeOK
    BY DEF TypeInv
<1> QED
    BY <1>1, TypeInvariance, PTL

(* The price never leaves its range: the checks after get_swap_result need   *)
(* only look at the bound in the direction of the trade.                     *)
THEOREM PriceSafety == Spec => []PriceInRange
<1>1. TypeInv => PriceInRange
    BY DEF TypeInv
<1> QED
    BY <1>1, TypeInvariance, PTL
-----------------------------------------------------------------------------
(* CheckpointsBehind.                                                        *)

RewardTimesBehind ==
    \A i \in RewardIndex : /\ rewards[i].last_update_time <= rewards[i].reward_duration_end
                           /\ rewards[i].last_update_time <= clock

BehindAccumulators(position, fee_per_liquidity, reward_infos) ==
    /\ \A t \in Token : position.fee_checkpoint[t] <= fee_per_liquidity[t]
    /\ \A i \in RewardIndex :
          position.reward_checkpoint[i] <= reward_infos[i].reward_per_token_stored

SameCheckpoints(q) ==
    /\ q \in DOMAIN positions
    /\ positions'[q].fee_checkpoint = positions[q].fee_checkpoint
    /\ positions'[q].reward_checkpoint = positions[q].reward_checkpoint

SameAccumulator(j) ==
    /\ rewards'[j].reward_per_token_stored = rewards[j].reward_per_token_stored
    /\ rewards'[j].last_update_time = rewards[j].last_update_time
    /\ rewards'[j].reward_duration_end = rewards[j].reward_duration_end

(* A step keeps CheckpointsBehind when accumulators do not fall and every    *)
(* position keeps its checkpoints or has new ones that are behind.           *)
LEMMA CheckpointStep ==
    ASSUME TypeOK, TypeOK', CheckpointsBehind, RewardTimesBehind',
           \A i \in RewardIndex :
              rewards'[i].reward_per_token_stored >= rewards[i].reward_per_token_stored,
           \A t \in Token : pool'.fee_per_liquidity[t] >= pool.fee_per_liquidity[t],
           \A q \in DOMAIN positions' :
              \/ SameCheckpoints(q)
              \/ BehindAccumulators(positions'[q], pool'.fee_per_liquidity, rewards')
    PROVE  CheckpointsBehind'
<1> SUFFICES ASSUME NEW q \in DOMAIN positions', SameCheckpoints(q)
             PROVE  BehindAccumulators(positions'[q], pool'.fee_per_liquidity, rewards')
    BY DEF CheckpointsBehind, RewardTimesBehind, BehindAccumulators
<1>1. /\ positions[q].fee_checkpoint \in [Token -> Nat]
      /\ positions[q].reward_checkpoint \in [RewardIndex -> Nat]
      /\ pool.fee_per_liquidity \in [Token -> Nat] /\ pool'.fee_per_liquidity \in [Token -> Nat]
    BY DEF TypeOK, SameCheckpoints, PositionState, PoolState
<1>2. \A i \in RewardIndex : /\ rewards[i].reward_per_token_stored \in Nat
                             /\ rewards'[i].reward_per_token_stored \in Nat
    BY DEF TypeOK, RewardInfo
<1>3. BehindAccumulators(positions[q], pool.fee_per_liquidity, rewards)
    BY DEF CheckpointsBehind, BehindAccumulators, SameCheckpoints
<1> QED
    BY <1>1, <1>2, <1>3 DEF BehindAccumulators, SameCheckpoints

(* A step that leaves accumulators and the clock alone.                      *)
LEMMA CheckpointFrame ==
    ASSUME TypeOK, TypeOK', CheckpointsBehind, UNCHANGED <<clock, rewards>>,
           pool'.fee_per_liquidity = pool.fee_per_liquidity,
           \A q \in DOMAIN positions' :
              \/ SameCheckpoints(q)
              \/ BehindAccumulators(positions'[q], pool'.fee_per_liquidity, rewards')
    PROVE  CheckpointsBehind'
<1>1. RewardTimesBehind'
    BY DEF CheckpointsBehind, RewardTimesBehind
<1>2. \A i \in RewardIndex :
         rewards'[i].reward_per_token_stored >= rewards[i].reward_per_token_stored
    BY DEF TypeOK, RewardInfo
<1>3. \A t \in Token : pool'.fee_per_liquidity[t] >= pool.fee_per_liquidity[t]
    BY DEF TypeOK, PoolState
<1> QED
    BY <1>1, <1>2, <1>3, CheckpointStep

(* A step that updates the rewards and settles or leaves each position.      *)
LEMMA UpdatedRewardsBehind ==
    ASSUME TypeOK, CheckpointsBehind, CanUpdateRewards
    PROVE  \A i \in RewardIndex :
              /\ UpdatedRewards[i].last_update_time <= UpdatedRewards[i].reward_duration_end
              /\ UpdatedRewards[i].last_update_time <= clock
<1> SUFFICES ASSUME NEW i \in RewardIndex
             PROVE  /\ UpdatedRewards[i].last_update_time <= UpdatedRewards[i].reward_duration_end
                    /\ UpdatedRewards[i].last_update_time <= clock
    OBVIOUS
<1>1. /\ UpdatedRewards[i].reward_duration_end = rewards[i].reward_duration_end
      /\ UpdatedRewards[i].last_update_time \in
            {rewards[i].last_update_time, LastTimeRewardApplicable(rewards[i], clock)}
    BY UpdatedRewardsType
<1>2. clock \in Nat /\ rewards[i].reward_duration_end \in Nat
    BY DEF TypeOK, RewardInfo
<1>3. /\ LastTimeRewardApplicable(rewards[i], clock) <= rewards[i].reward_duration_end
      /\ LastTimeRewardApplicable(rewards[i], clock) <= clock
    BY <1>2 DEF LastTimeRewardApplicable
<1> QED
    BY <1>1, <1>3 DEF CheckpointsBehind

(* A settled position is level with the accumulators.                        *)
LEMMA SettledBehind ==
    ASSUME TypeOK, CheckpointsBehind, CanUpdateRewards, rewards' = UpdatedRewards,
           NEW p \in DOMAIN positions, CanSettle(p)
    PROVE  BehindAccumulators(Settled(p), pool.fee_per_liquidity, rewards')
<1>1. /\ Settled(p).fee_checkpoint = pool.fee_per_liquidity
      /\ \A i \in RewardIndex :
            Settled(p).reward_checkpoint[i] =
                IF rewards'[i].initialized THEN rewards'[i].reward_per_token_stored
                                           ELSE positions[p].reward_checkpoint[i]
    BY SettledType
<1>2. pool.fee_per_liquidity \in [Token -> Nat] /\ positions[p] \in PositionState
    BY DEF TypeOK, PoolState
<1>3. positions[p].reward_checkpoint \in [RewardIndex -> Nat]
    BY <1>2 DEF PositionState
<1>4. \A i \in RewardIndex :
         /\ rewards[i].reward_per_token_stored \in Nat
         /\ rewards'[i].reward_per_token_stored \in Nat
         /\ rewards'[i].reward_per_token_stored >= rewards[i].reward_per_token_stored
    BY UpdatedRewardsType DEF TypeOK, RewardInfo
<1>5. \A i \in RewardIndex :
         positions[p].reward_checkpoint[i] <= rewards[i].reward_per_token_stored
    BY DEF CheckpointsBehind
<1> QED
    BY <1>1, <1>2, <1>3, <1>4, <1>5 DEF BehindAccumulators

(* A step that updates the rewards, keeps the pool's fees and the clock.     *)
LEMMA UpdateStep ==
    ASSUME TypeOK, TypeOK', CheckpointsBehind, CanUpdateRewards, rewards' = UpdatedRewards,
           clock' = clock, pool'.fee_per_liquidity = pool.fee_per_liquidity,
           \A q \in DOMAIN positions' :
              \/ SameCheckpoints(q)
              \/ BehindAccumulators(positions'[q], pool'.fee_per_liquidity, rewards')
    PROVE  CheckpointsBehind'
<1>1. RewardTimesBehind'
    BY UpdatedRewardsBehind DEF RewardTimesBehind
<1>2. \A i \in RewardIndex :
         rewards'[i].reward_per_token_stored >= rewards[i].reward_per_token_stored
    BY UpdatedRewardsType
<1>3. \A t \in Token : pool'.fee_per_liquidity[t] >= pool.fee_per_liquidity[t]
    BY DEF TypeOK, PoolState
<1> QED
    BY <1>1, <1>2, <1>3, CheckpointStep
-----------------------------------------------------------------------------
LEMMA CreatePositionCheckpoints ==
    ASSUME TypeOK, TypeOK', CheckpointsBehind, NEW p \in PositionId, CreatePosition(p)
    PROVE  CheckpointsBehind'
<1>1. pool'.fee_per_liquidity = pool.fee_per_liquidity
    BY DEF TypeOK, PoolState, CreatePosition
<1>2. BehindAccumulators(NewPosition(0), pool'.fee_per_liquidity, rewards')
    BY DEF TypeOK, PoolState, RewardInfo, NewPosition, BehindAccumulators
<1>3. ASSUME NEW q \in DOMAIN positions'
      PROVE  \/ SameCheckpoints(q)
             \/ BehindAccumulators(positions'[q], pool'.fee_per_liquidity, rewards')
    BY <1>2 DEF CreatePosition, Put, SameCheckpoints
<1> QED
    BY <1>1, <1>3, CheckpointFrame DEF CreatePosition

LEMMA ClosePositionCheckpoints ==
    ASSUME TypeOK, TypeOK', CheckpointsBehind, NEW p \in PositionId, ClosePosition(p)
    PROVE  CheckpointsBehind'
<1>1. pool'.fee_per_liquidity = pool.fee_per_liquidity
    BY DEF TypeOK, PoolState, ClosePosition
<1>2. \A q \in DOMAIN positions' : SameCheckpoints(q)
    BY DEF ClosePosition, Drop, SameCheckpoints
<1> QED
    BY <1>1, <1>2, CheckpointFrame DEF ClosePosition

LEMMA AddLiquidityCheckpoints ==
    ASSUME TypeOK, TypeOK', CheckpointsBehind, NEW p \in PositionId, NEW delta \in Nat,
           NEW threshold, AddLiquidity(p, delta, threshold)
    PROVE  CheckpointsBehind'
<1>1. pool'.fee_per_liquidity = pool.fee_per_liquidity
    BY DEF TypeOK, PoolState, AddLiquidity
<1>2. /\ p \in DOMAIN positions /\ Settled(p) \in PositionState
      /\ BehindAccumulators(Settled(p), pool.fee_per_liquidity, rewards')
    BY SettledType, SettledBehind DEF AddLiquidity
<1>3. BehindAccumulators(AddLiquidityTo(Settled(p), delta), pool'.fee_per_liquidity, rewards')
    BY <1>1, <1>2, AddLiquidityToType DEF BehindAccumulators
<1>4. ASSUME NEW q \in DOMAIN positions'
      PROVE  \/ SameCheckpoints(q)
             \/ BehindAccumulators(positions'[q], pool'.fee_per_liquidity, rewards')
    BY <1>2, <1>3 DEF TypeOK, AddLiquidity, SameCheckpoints
<1> QED
    BY <1>1, <1>4, UpdateStep DEF AddLiquidity

LEMMA RemoveLiquidityCheckpoints ==
    ASSUME TypeOK, TypeOK', CheckpointsBehind, NEW p \in PositionId, NEW delta \in Nat,
           NEW threshold, RemoveLiquidity(p, delta, threshold)
    PROVE  CheckpointsBehind'
<1>1. pool'.fee_per_liquidity = pool.fee_per_liquidity
    BY DEF TypeOK, PoolState, RemoveLiquidity
<1>2. /\ p \in DOMAIN positions /\ Settled(p) \in PositionState
      /\ Settled(p).unlocked_liquidity = positions[p].unlocked_liquidity
      /\ BehindAccumulators(Settled(p), pool.fee_per_liquidity, rewards')
    BY SettledType, SettledBehind DEF RemoveLiquidity
<1>3. BehindAccumulators(RemoveUnlockedLiquidity(Settled(p), delta), pool'.fee_per_liquidity,
                         rewards')
    <2>1. delta <= Settled(p).unlocked_liquidity
        BY <1>2 DEF RemoveLiquidity
    <2> QED
        BY <1>1, <1>2, <2>1, RemoveUnlockedLiquidityType DEF BehindAccumulators
<1>4. ASSUME NEW q \in DOMAIN positions'
      PROVE  \/ SameCheckpoints(q)
             \/ BehindAccumulators(positions'[q], pool'.fee_per_liquidity, rewards')
    BY <1>2, <1>3 DEF TypeOK, RemoveLiquidity, SameCheckpoints
<1> QED
    BY <1>1, <1>4, UpdateStep DEF RemoveLiquidity

LEMMA ClaimPositionFeeCheckpoints ==
    ASSUME TypeOK, TypeOK', CheckpointsBehind, NEW p \in PositionId, ClaimPositionFee(p)
    PROVE  CheckpointsBehind'
<1> DEFINE updated == UpdateFee(positions[p], pool.fee_per_liquidity)
           paid    == [updated EXCEPT !.fee_pending = NoTokens]
<1>1. /\ p \in DOMAIN positions /\ positions[p] \in PositionState
      /\ pool.fee_per_liquidity \in [Token -> Nat]
      /\ CanUpdateFee(positions[p], pool.fee_per_liquidity)
    BY DEF TypeOK, ClaimPositionFee, PoolState
<1>2. /\ updated \in PositionState
      /\ updated.fee_checkpoint = pool.fee_per_liquidity
      /\ updated.reward_checkpoint = positions[p].reward_checkpoint
    BY <1>1, UpdateFeeType
<1>3. positions' = [positions EXCEPT ![p] = paid]
    BY DEF ClaimPositionFee
<1> HIDE DEF updated
<1>4. paid.fee_checkpoint = updated.fee_checkpoint /\ paid.reward_checkpoint = updated.reward_checkpoint
    BY <1>2 DEF PositionState
<1> HIDE DEF paid
<1>5. BehindAccumulators(paid, pool'.fee_per_liquidity, rewards')
    <2>1. \A t \in Token : paid.fee_checkpoint[t] <= pool'.fee_per_liquidity[t]
        BY <1>1, <1>2, <1>4 DEF ClaimPositionFee
    <2>2. \A i \in RewardIndex :
             paid.reward_checkpoint[i] <= rewards'[i].reward_per_token_stored
        BY <1>1, <1>2, <1>4 DEF ClaimPositionFee, CheckpointsBehind
    <2> QED
        BY <2>1, <2>2 DEF BehindAccumulators
<1>6. ASSUME NEW q \in DOMAIN positions'
      PROVE  \/ SameCheckpoints(q)
             \/ BehindAccumulators(positions'[q], pool'.fee_per_liquidity, rewards')
    BY <1>1, <1>3, <1>5 DEF TypeOK, SameCheckpoints
<1> QED
    BY <1>6, CheckpointFrame DEF ClaimPositionFee
-----------------------------------------------------------------------------
LEMMA LockPositionCheckpoints ==
    ASSUME TypeOK, TypeOK', CheckpointsBehind, NEW p \in PositionId, NEW v \in VestingId,
           NEW params, NEW cliff_point, LockPosition(p, v, params, cliff_point)
    PROVE  CheckpointsBehind'
<1>1. \A q \in DOMAIN positions' : SameCheckpoints(q)
    BY DEF TypeOK, PositionState, LockPosition, Lock, SameCheckpoints
<1> QED
    BY <1>1, CheckpointFrame DEF LockPosition

LEMMA RefreshVestingCheckpoints ==
    ASSUME TypeOK, TypeOK', CheckpointsBehind, NEW v \in VestingId, RefreshVesting(v)
    PROVE  CheckpointsBehind'
<1>1. \A q \in DOMAIN positions' : SameCheckpoints(q)
    BY DEF TypeOK, PositionState, RefreshVesting, ReleaseVestedLiquidity, SameCheckpoints
<1> QED
    BY <1>1, CheckpointFrame DEF RefreshVesting

LEMMA PermanentLockPositionCheckpoints ==
    ASSUME TypeOK, TypeOK', CheckpointsBehind, NEW p \in PositionId, NEW amount,
           PermanentLockPosition(p, amount)
    PROVE  CheckpointsBehind'
<1>1. pool'.fee_per_liquidity = pool.fee_per_liquidity
    BY DEF TypeOK, PoolState, PermanentLockPosition
<1>2. \A q \in DOMAIN positions' : SameCheckpoints(q)
    BY DEF TypeOK, PositionState, PermanentLockPosition, PermanentLockLiquidity, SameCheckpoints
<1> QED
    BY <1>1, <1>2, CheckpointFrame DEF PermanentLockPosition

LEMMA SplitPositionCheckpoints ==
    ASSUME TypeInv, TypeOK', CheckpointsBehind, NEW first \in PositionId,
           NEW second \in PositionId, NEW numerators \in SplitParameters,
           SplitPosition(first, second, numerators)
    PROVE  CheckpointsBehind'
<1> USE DEF TypeInv
<1>1. PICK share \in Shares :
              /\ TakeShare(Settled(first), share).fee_checkpoint = Settled(first).fee_checkpoint
              /\ TakeShare(Settled(first), share).reward_checkpoint
                    = Settled(first).reward_checkpoint
              /\ positions' = [positions EXCEPT
                    ![first] = TakeShare(Settled(first), share),
                    ![second] = GiveShare(Settled(second), share)]
    BY SplitComputes
<1>2. /\ first \in DOMAIN positions /\ second \in DOMAIN positions
      /\ BehindAccumulators(Settled(first), pool.fee_per_liquidity, rewards')
      /\ BehindAccumulators(Settled(second), pool.fee_per_liquidity, rewards')
      /\ Settled(second) \in PositionState
    BY SettledType, SettledBehind DEF SplitPosition
<1>3. BehindAccumulators(TakeShare(Settled(first), share), pool.fee_per_liquidity, rewards')
    BY <1>1, <1>2 DEF BehindAccumulators
<1>4. BehindAccumulators(GiveShare(Settled(second), share), pool.fee_per_liquidity, rewards')
    BY <1>2, GiveShareType DEF BehindAccumulators
<1>5. pool' = pool
    BY DEF SplitPosition
<1>6. ASSUME NEW q \in DOMAIN positions'
      PROVE  \/ SameCheckpoints(q)
             \/ BehindAccumulators(positions'[q], pool'.fee_per_liquidity, rewards')
    BY <1>1, <1>2, <1>3, <1>4, <1>5 DEF TypeOK, SameCheckpoints
<1> QED
    BY <1>5, <1>6, UpdateStep DEF SplitPosition
-----------------------------------------------------------------------------
LEMMA SwapCheckpoints ==
    ASSUME TypeInv, TypeOK', CheckpointsBehind, NEW amount_in \in Nat, NEW a_for_b \in BOOLEAN,
           NEW has_referral \in BOOLEAN, NEW is_whitelisted_vault, NEW minimum_amount_out,
           Swap(amount_in, a_for_b, has_referral, is_whitelisted_vault, minimum_amount_out)
    PROVE  CheckpointsBehind'
<1>1. PICK dyn \in DynamicFeeState, result \in SwapResults :
              /\ DynamicFee.enabled => dyn.sqrt_price_reference > 0
              /\ result.next_sqrt_price \in SqrtMinPrice .. SqrtMaxPrice
              /\ pool' = ApplySwapResult(dyn, result, a_for_b)
    BY SwapComputes
<1>2. pool.liquidity > 0 /\ UNCHANGED <<clock, rewards, positions>>
    BY DEF Swap
<1>3. \A t \in Token : pool'.fee_per_liquidity[t] >= pool.fee_per_liquidity[t]
    BY <1>1, <1>2, ApplySwapResultType
<1>4. RewardTimesBehind'
    BY <1>2 DEF CheckpointsBehind, RewardTimesBehind
<1>5. \A i \in RewardIndex :
         rewards'[i].reward_per_token_stored >= rewards[i].reward_per_token_stored
    BY <1>2 DEF TypeInv, TypeOK, RewardInfo
<1>6. \A q \in DOMAIN positions' : SameCheckpoints(q)
    BY <1>2 DEF SameCheckpoints
<1> QED
    BY <1>3, <1>4, <1>5, <1>6, CheckpointStep DEF TypeInv

LEMMA ClaimFeeCheckpoints ==
    ASSUME TypeOK, TypeOK', CheckpointsBehind, NEW max_amount,
           ClaimProtocolFee(max_amount) \/ ClaimPartnerFee(max_amount)
    PROVE  CheckpointsBehind'
<1>1. pool'.fee_per_liquidity = pool.fee_per_liquidity
    BY DEF TypeOK, PoolState, ClaimProtocolFee, ClaimPartnerFee
<1>2. UNCHANGED <<clock, rewards, positions>>
    BY DEF ClaimProtocolFee, ClaimPartnerFee
<1>3. \A q \in DOMAIN positions' : SameCheckpoints(q)
    BY <1>2 DEF SameCheckpoints
<1> QED
    BY <1>1, <1>2, <1>3, CheckpointFrame

(* Rewards that keep their accumulator and times, positions that stay.       *)
LEMMA EditRewardCheckpoints ==
    ASSUME TypeOK, TypeOK', CheckpointsBehind, NEW i \in RewardIndex,
           \/ \E signer, funder \in Key, duration \in RewardDurations :
                 InitializeReward(i, signer, funder, duration)
           \/ \E signer \in Key, duration \in RewardDurations :
                 UpdateRewardDuration(i, signer, duration)
           \/ \E signer, funder \in Key : UpdateRewardFunder(i, signer, funder)
           \/ FreezeRewardVault(i)
    PROVE  CheckpointsBehind'
<1>1. UNCHANGED <<clock, pool, positions>>
    BY DEF InitializeReward, UpdateRewardDuration, UpdateRewardFunder, FreezeRewardVault
<1>2. \A j \in RewardIndex :
         /\ rewards'[j].reward_per_token_stored = rewards[j].reward_per_token_stored
         /\ rewards'[j].last_update_time = rewards[j].last_update_time
         /\ rewards'[j].reward_duration_end = rewards[j].reward_duration_end
    <2> SUFFICES ASSUME NEW j \in RewardIndex
                 PROVE  SameAccumulator(j)
        BY DEF SameAccumulator
    <2>1. rewards[j] \in RewardInfo /\ rewards \in [RewardIndex -> RewardInfo]
        BY DEF TypeOK
    <2>2. ASSUME NEW signer, NEW funder, NEW duration, InitializeReward(i, signer, funder, duration)
          PROVE  SameAccumulator(j)
        BY <2>1, <2>2 DEF InitializeReward, InitReward, RewardInfo, SameAccumulator
    <2>3. ASSUME NEW signer, NEW duration, UpdateRewardDuration(i, signer, duration)
          PROVE  SameAccumulator(j)
        BY <2>1, <2>3 DEF UpdateRewardDuration, RewardInfo, SameAccumulator
    <2>4. ASSUME NEW signer, NEW funder, UpdateRewardFunder(i, signer, funder)
          PROVE  SameAccumulator(j)
        BY <2>1, <2>4 DEF UpdateRewardFunder, RewardInfo, SameAccumulator
    <2>5. ASSUME FreezeRewardVault(i) PROVE SameAccumulator(j)
        BY <2>5 DEF FreezeRewardVault, SameAccumulator
    <2> QED
        BY <2>2, <2>3, <2>4, <2>5
<1>3. RewardTimesBehind'
    BY <1>1, <1>2 DEF CheckpointsBehind, RewardTimesBehind
<1>4. \A j \in RewardIndex :
         rewards'[j].reward_per_token_stored >= rewards[j].reward_per_token_stored
    BY <1>2 DEF TypeOK, RewardInfo
<1>5. \A t \in Token : pool'.fee_per_liquidity[t] >= pool.fee_per_liquidity[t]
    BY <1>1 DEF TypeOK, PoolState
<1>6. \A q \in DOMAIN positions' : SameCheckpoints(q)
    BY <1>1 DEF SameCheckpoints
<1> QED
    BY <1>3, <1>4, <1>5, <1>6, CheckpointStep

LEMMA FundRewardCheckpoints ==
    ASSUME TypeInv, TypeOK', CheckpointsBehind, NEW i \in RewardIndex, NEW signer,
           NEW amount \in Nat, NEW carry_forward \in BOOLEAN,
           FundReward(i, signer, amount, carry_forward)
    PROVE  CheckpointsBehind'
<1> USE DEF TypeInv
<1>1. PICK funded \in RewardInfo :
              /\ rewards' = [UpdatedRewards EXCEPT ![i] = funded]
              /\ funded.reward_per_token_stored = UpdatedRewards[i].reward_per_token_stored
              /\ funded.last_update_time = clock
              /\ funded.last_update_time <= funded.reward_duration_end
    BY FundRewardComputes
<1>2. UNCHANGED <<clock, pool, positions>> /\ CanUpdateRewards
    BY DEF FundReward
<1>3. /\ UpdatedRewards \in [RewardIndex -> RewardInfo]
      /\ \A j \in RewardIndex : UpdatedRewards[j].reward_per_token_stored
                                    >= rewards[j].reward_per_token_stored
    BY <1>2, UpdatedRewardsType
<1>4. clock <= clock
    BY DEF TypeOK
<1>5. \A j \in RewardIndex :
         rewards'[j] = IF j = i THEN funded ELSE UpdatedRewards[j]
    BY <1>1, <1>3
<1>6. RewardTimesBehind'
    BY <1>1, <1>2, <1>4, <1>5, UpdatedRewardsBehind DEF RewardTimesBehind
<1>7. \A j \in RewardIndex :
         rewards'[j].reward_per_token_stored >= rewards[j].reward_per_token_stored
    BY <1>1, <1>3, <1>5
<1>8. \A t \in Token : pool'.fee_per_liquidity[t] >= pool.fee_per_liquidity[t]
    BY <1>2 DEF TypeOK, PoolState
<1>9. \A q \in DOMAIN positions' : SameCheckpoints(q)
    BY <1>2 DEF SameCheckpoints
<1> QED
    BY <1>6, <1>7, <1>8, <1>9, CheckpointStep

LEMMA WithdrawIneligibleRewardCheckpoints ==
    ASSUME TypeInv, TypeOK', CheckpointsBehind, NEW i \in RewardIndex, NEW signer,
           WithdrawIneligibleReward(i, signer)
    PROVE  CheckpointsBehind'
<1> USE DEF TypeInv
<1>1. /\ UNCHANGED <<clock, pool, positions>> /\ CanUpdateRewards
      /\ rewards' = [UpdatedRewards EXCEPT ![i] = ResetEmptySeconds(@)]
    BY DEF WithdrawIneligibleReward
<1>2. /\ UpdatedRewards \in [RewardIndex -> RewardInfo]
      /\ \A j \in RewardIndex : UpdatedRewards[j].reward_per_token_stored
                                    >= rewards[j].reward_per_token_stored
    BY <1>1, UpdatedRewardsType
<1>3. \A j \in RewardIndex :
         rewards'[j] = IF j = i THEN ResetEmptySeconds(UpdatedRewards[j]) ELSE UpdatedRewards[j]
    BY <1>1, <1>2
<1>4. \A j \in RewardIndex :
         /\ rewards'[j].reward_per_token_stored = UpdatedRewards[j].reward_per_token_stored
         /\ rewards'[j].last_update_time = UpdatedRewards[j].last_update_time
         /\ rewards'[j].reward_duration_end = UpdatedRewards[j].reward_duration_end
    <2> TAKE j \in RewardIndex
    <2>1. UpdatedRewards[j] \in RewardInfo
        BY <1>2
    <2> QED
        BY <1>3, <2>1, ResetEmptySecondsType
<1>5. RewardTimesBehind'
    BY <1>1, <1>4, UpdatedRewardsBehind DEF RewardTimesBehind
<1>6. \A j \in RewardIndex :
         rewards'[j].reward_per_token_stored >= rewards[j].reward_per_token_stored
    BY <1>2, <1>4
<1>7. \A t \in Token : pool'.fee_per_liquidity[t] >= pool.fee_per_liquidity[t]
    BY <1>1 DEF TypeOK, PoolState
<1>8. \A q \in DOMAIN positions' : SameCheckpoints(q)
    BY <1>1 DEF SameCheckpoints
<1> QED
    BY <1>5, <1>6, <1>7, <1>8, CheckpointStep

LEMMA ClaimRewardCheckpoints ==
    ASSUME TypeOK, TypeOK', CheckpointsBehind, NEW p \in PositionId, NEW i \in RewardIndex,
           NEW skip_reward, ClaimReward(p, i, skip_reward)
    PROVE  CheckpointsBehind'
<1> DEFINE updated == UpdatePositionReward(positions[p], rewards')
           paid    == [updated EXCEPT !.reward_pending[i] = 0]
<1>1. /\ p \in DOMAIN positions /\ positions[p] \in PositionState
      /\ rewards' \in [RewardIndex -> RewardInfo] /\ pool' = pool
      /\ CanUpdatePositionReward(positions[p], rewards')
      /\ CanUpdateRewards /\ rewards' = UpdatedRewards
    BY DEF TypeOK, ClaimReward
<1>2. /\ updated \in PositionState
      /\ updated.fee_checkpoint = positions[p].fee_checkpoint
      /\ \A j \in RewardIndex :
            updated.reward_checkpoint[j] =
                IF rewards'[j].initialized THEN rewards'[j].reward_per_token_stored
                                           ELSE positions[p].reward_checkpoint[j]
    BY <1>1, UpdatePositionRewardType
<1>3. positions' = [positions EXCEPT ![p] = paid]
    BY DEF ClaimReward
<1> HIDE DEF updated
<1>4. paid.fee_checkpoint = updated.fee_checkpoint /\ paid.reward_checkpoint = updated.reward_checkpoint
    BY <1>2 DEF PositionState
<1> HIDE DEF paid
<1>5. BehindAccumulators(paid, pool'.fee_per_liquidity, rewards')
    <2>1. \A t \in Token : paid.fee_checkpoint[t] <= pool'.fee_per_liquidity[t]
        BY <1>1, <1>2, <1>4 DEF CheckpointsBehind
    <2>2. \A j \in RewardIndex :
             /\ rewards[j].reward_per_token_stored \in Nat
             /\ rewards'[j].reward_per_token_stored \in Nat
             /\ rewards'[j].reward_per_token_stored >= rewards[j].reward_per_token_stored
             /\ positions[p].reward_checkpoint[j] \in Nat
        BY <1>1, UpdatedRewardsType DEF TypeOK, RewardInfo, PositionState
    <2>3. \A j \in RewardIndex :
             positions[p].reward_checkpoint[j] <= rewards[j].reward_per_token_stored
        BY <1>1 DEF CheckpointsBehind
    <2>4. \A j \in RewardIndex :
             paid.reward_checkpoint[j] <= rewards'[j].reward_per_token_stored
        BY <1>2, <1>4, <2>2, <2>3
    <2> QED
        BY <2>1, <2>4 DEF BehindAccumulators
<1>6. ASSUME NEW q \in DOMAIN positions'
      PROVE  \/ SameCheckpoints(q)
             \/ BehindAccumulators(positions'[q], pool'.fee_per_liquidity, rewards')
    BY <1>1, <1>3, <1>5 DEF TypeOK, SameCheckpoints
<1> QED
    BY <1>1, <1>6, UpdateStep DEF ClaimReward

LEMMA IdleCheckpoints ==
    ASSUME TypeOK, TypeOK', CheckpointsBehind, Tick \/ SetPoolStatus \/ UNCHANGED vars
    PROVE  CheckpointsBehind'
<1>1. UNCHANGED <<rewards, positions>> /\ pool'.fee_per_liquidity = pool.fee_per_liquidity
    BY DEF Tick, SetPoolStatus, vars, TypeOK, PoolState
<1>2. clock \in Nat /\ clock' \in Nat /\ clock' >= clock
    BY DEF TypeOK, Tick, SetPoolStatus, vars
<1>3. RewardTimesBehind'
    BY <1>1, <1>2 DEF TypeOK, RewardInfo, CheckpointsBehind, RewardTimesBehind
<1>4. \A i \in RewardIndex :
         rewards'[i].reward_per_token_stored >= rewards[i].reward_per_token_stored
    BY <1>1 DEF TypeOK, RewardInfo
<1>5. \A t \in Token : pool'.fee_per_liquidity[t] >= pool.fee_per_liquidity[t]
    BY <1>1 DEF TypeOK, PoolState
<1>6. \A q \in DOMAIN positions' : SameCheckpoints(q)
    BY <1>1 DEF SameCheckpoints
<1> QED
    BY <1>3, <1>4, <1>5, <1>6, CheckpointStep
-----------------------------------------------------------------------------
LEMMA InitCheckpoints == Init => CheckpointsBehind
<1> SUFFICES ASSUME NEW p \in PositionId, NEW sqrt_price \in InitialSqrtPrices,
                    NEW liquidity \in LiquidityDeltas, InitializePool(p, sqrt_price, liquidity)
             PROVE  CheckpointsBehind
    BY DEF Init
<1>1. StartTime \in Nat
    BY CpAmmAssumption
<1> QED
    BY <1>1 DEF InitializePool, CheckpointsBehind, NoReward, NewPosition, NoTokens

LEMMA InstructionCheckpoints ==
    ASSUME TypeInv, TypeOK', CheckpointsBehind, Instruction
    PROVE  CheckpointsBehind'
<1> USE DEF TypeInv
<1>1. ASSUME PositionInstruction PROVE CheckpointsBehind'
    <2>1. \A p \in DOMAIN positions : positions[p].unlocked_liquidity \in Nat
        BY DEF TypeOK, PositionState
    <2> QED
        BY <1>1, <2>1, InputTypes, CreatePositionCheckpoints, ClosePositionCheckpoints,
           AddLiquidityCheckpoints, RemoveLiquidityCheckpoints, ClaimPositionFeeCheckpoints
           DEF PositionInstruction
<1>2. ASSUME LockInstruction PROVE CheckpointsBehind'
    BY <1>2, InputTypes, LockPositionCheckpoints, RefreshVestingCheckpoints,
       PermanentLockPositionCheckpoints, SplitPositionCheckpoints DEF LockInstruction
<1>3. ASSUME TradeInstruction PROVE CheckpointsBehind'
    BY <1>3, InputTypes, SwapCheckpoints, ClaimFeeCheckpoints DEF TradeInstruction
<1>4. ASSUME RewardInstruction PROVE CheckpointsBehind'
    BY <1>4, InputTypes, EditRewardCheckpoints, FundRewardCheckpoints, ClaimRewardCheckpoints,
       WithdrawIneligibleRewardCheckpoints DEF RewardInstruction
<1> QED
    BY <1>1, <1>2, <1>3, <1>4, IdleCheckpoints DEF Instruction

(* No checked subtraction of update_fee, update_position_reward or           *)
(* get_seconds_elapsed_since_last_update can fail in a reachable state, so   *)
(* no position's fees, rewards or liquidity are ever stuck behind one.       *)
THEOREM CheckpointSafety == Spec => []CheckpointsBehind
<1>1. Init => CheckpointsBehind
    BY InitCheckpoints
<1>2. TypeInv /\ TypeInv' /\ CheckpointsBehind /\ [Next]_vars => CheckpointsBehind'
    BY IdleCheckpoints, InstructionCheckpoints DEF Next, TypeInv
<1> QED
    BY <1>1, <1>2, TypeInvariance, PTL DEF Spec
-----------------------------------------------------------------------------
(* VolatilityReferenceUsable: strengthened by the fact that the timestamp of *)
(* the volatility state moves only in a swap that has a reference price.     *)

VolatilityInv ==
    /\ clock >= StartTime
    /\ pool.dynamic.last_update_timestamp <= clock
    /\ DynamicFee.enabled /\ pool.dynamic.sqrt_price_reference = 0 =>
          pool.dynamic.last_update_timestamp = 0

LEMMA VolatilityInvSuffices ==
    ASSUME TypeInv, VolatilityInv
    PROVE  VolatilityReferenceUsable
<1> SUFFICES ASSUME DynamicFee.enabled
             PROVE  /\ clock >= pool.dynamic.last_update_timestamp
                    /\ UpdatePreSwap(pool.dynamic, pool.sqrt_price, clock).sqrt_price_reference > 0
    BY DEF VolatilityReferenceUsable
<1>1. /\ clock \in Nat /\ pool.dynamic \in DynamicFeeState
      /\ pool.dynamic.last_update_timestamp \in Nat /\ pool.dynamic.sqrt_price_reference \in Nat
    BY DEF TypeInv, TypeOK, PoolState, DynamicFeeState
<1>2. pool.sqrt_price \in Nat /\ pool.sqrt_price > 0
    BY PriceTypes DEF TypeInv, PriceInRange
<1>3. StartTime \in Nat /\ StartTime >= DynamicFee.filter_period
    BY CpAmmAssumption
<1>4. DynamicFee.filter_period \in Nat
    BY FeeAssumption DEF UsableFees, DynamicFeeParameters
<1>5. CASE clock - pool.dynamic.last_update_timestamp >= DynamicFee.filter_period
    BY <1>1, <1>2, <1>5 DEF UpdatePreSwap, UpdateReferences, DynamicFeeState, VolatilityInv
<1>6. CASE ~(clock - pool.dynamic.last_update_timestamp >= DynamicFee.filter_period)
    <2>1. pool.dynamic.sqrt_price_reference # 0
        BY <1>1, <1>3, <1>4, <1>6 DEF VolatilityInv
    <2>2. UpdatePreSwap(pool.dynamic, pool.sqrt_price, clock) = pool.dynamic
        BY <1>6 DEF UpdatePreSwap, UpdateReferences
    <2> QED
        BY <1>1, <2>1, <2>2 DEF VolatilityInv
<1> QED
    BY <1>5, <1>6

LEMMA SwapVolatility ==
    ASSUME TypeInv, VolatilityInv, NEW amount_in \in Nat, NEW a_for_b \in BOOLEAN,
           NEW has_referral \in BOOLEAN, NEW is_whitelisted_vault, NEW minimum_amount_out,
           Swap(amount_in, a_for_b, has_referral, is_whitelisted_vault, minimum_amount_out)
    PROVE  VolatilityInv'
<1>1. PICK dyn \in DynamicFeeState, result \in SwapResults :
              /\ dyn = UpdatePreSwap(pool.dynamic, pool.sqrt_price, clock)
              /\ DynamicFee.enabled => dyn.sqrt_price_reference > 0
              /\ result.next_sqrt_price \in SqrtMinPrice .. SqrtMaxPrice
              /\ pool' = ApplySwapResult(dyn, result, a_for_b)
    BY SwapComputes
<1>2. pool.liquidity > 0 /\ clock' = clock /\ clock \in Nat
    BY DEF Swap, TypeInv, TypeOK
<1>3. /\ pool'.dynamic.sqrt_price_reference = dyn.sqrt_price_reference
      /\ pool'.dynamic.last_update_timestamp \in {dyn.last_update_timestamp, clock}
    BY <1>1, <1>2, ApplySwapResultType
<1>4. dyn.last_update_timestamp = pool.dynamic.last_update_timestamp
    BY <1>1 DEF UpdatePreSwap, UpdateReferences, TypeInv, TypeOK, PoolState, DynamicFeeState
<1>5. dyn.sqrt_price_reference \in Nat
    BY DEF DynamicFeeState
<1> QED
    BY <1>1, <1>2, <1>3, <1>4, <1>5 DEF VolatilityInv

LEMMA TickVolatility ==
    ASSUME TypeInv, VolatilityInv, Tick
    PROVE  VolatilityInv'
<1>1. StartTime \in Nat
    BY CpAmmAssumption
<1> QED
    BY <1>1 DEF VolatilityInv, Tick, TypeInv, TypeOK, PoolState, DynamicFeeState

(* Every other instruction leaves the volatility state and the clock alone.  *)
LEMMA OthersVolatility ==
    ASSUME TypeInv, VolatilityInv,
           \/ PositionInstruction
           \/ LockInstruction
           \/ RewardInstruction
           \/ SetPoolStatus
           \/ \E max_amount \in [Token -> MaxFeeClaims] :
                 ClaimProtocolFee(max_amount) \/ ClaimPartnerFee(max_amount)
    PROVE  VolatilityInv'
<1> DEFINE Same == clock' = clock /\ pool'.dynamic = pool.dynamic
<1>0. pool \in PoolState
    BY DEF TypeInv, TypeOK
<1>1. ASSUME PositionInstruction PROVE Same
    BY <1>0, <1>1 DEF PositionInstruction, CreatePosition, ClosePosition, ClaimPositionFee,
                      AddLiquidity, RemoveLiquidity, PoolState
<1>2. ASSUME LockInstruction PROVE Same
    BY <1>0, <1>2 DEF LockInstruction, LockPosition, RefreshVesting, PermanentLockPosition,
                      SplitPosition, PoolState
<1>3. ASSUME RewardInstruction PROVE Same
    BY <1>3 DEF RewardInstruction, InitializeReward, FundReward, ClaimReward,
                WithdrawIneligibleReward, UpdateRewardDuration, UpdateRewardFunder,
                FreezeRewardVault
<1>4. ASSUME SetPoolStatus PROVE Same
    BY <1>0, <1>4 DEF SetPoolStatus, PoolState
<1>5. ASSUME NEW max_amount, ClaimProtocolFee(max_amount) \/ ClaimPartnerFee(max_amount)
      PROVE  Same
    BY <1>0, <1>5 DEF ClaimProtocolFee, ClaimPartnerFee, PoolState
<1>6. Same
    BY <1>1, <1>2, <1>3, <1>4, <1>5
<1> QED
    BY <1>6 DEF VolatilityInv

LEMMA InitVolatility == Init => VolatilityInv
<1> SUFFICES ASSUME NEW p \in PositionId, NEW sqrt_price \in InitialSqrtPrices,
                    NEW liquidity \in LiquidityDeltas, InitializePool(p, sqrt_price, liquidity)
             PROVE  VolatilityInv
    BY DEF Init
<1>1. StartTime \in Nat
    BY CpAmmAssumption
<1> QED
    BY <1>1 DEF InitializePool, VolatilityInv, InitialDynamicFeeState

(* Swaps are never locked out by the dynamic fee: there is a reference price *)
(* whenever one is divided by, from the first swap on, however swaps that do *)
(* and do not cross a bin follow each other.                                 *)
THEOREM VolatilitySafety == Spec => []VolatilityReferenceUsable
<1>1. Init => VolatilityInv
    BY InitVolatility
<1>2. TypeInv /\ VolatilityInv /\ [Next]_vars => VolatilityInv'
    <2> SUFFICES ASSUME TypeInv, VolatilityInv, [Next]_vars PROVE VolatilityInv'
        OBVIOUS
    <2>1. CASE UNCHANGED vars
        BY <2>1 DEF VolatilityInv, vars
    <2>2. CASE TradeInstruction
        BY <2>2, SwapVolatility, OthersVolatility, InputTypes DEF TradeInstruction
    <2> QED
        BY <2>1, <2>2, TickVolatility, OthersVolatility DEF Next, Instruction
<1>3. TypeInv /\ VolatilityInv => VolatilityReferenceUsable
    BY VolatilityInvSuffices
<1> QED
    BY <1>1, <1>2, <1>3, TypeInvariance, PTL DEF Spec
-----------------------------------------------------------------------------
(* ReleasesFollowSchedule.                                                   *)

(* What a schedule has unlocked never shrinks with time.                     *)
LEMMA MaxUnlockedGrows ==
    ASSUME NEW vesting \in VestingState, NEW now \in Nat
    PROVE  GetMaxUnlockedLiquidity(vesting, now) <= GetMaxUnlockedLiquidity(vesting, now + 1)
<1> DEFINE frequency == vesting.period_frequency
           number    == vesting.number_of_period
           amount    == vesting.liquidity_per_period
           cliff     == vesting.cliff_unlock_liquidity
           since(n)  == n - vesting.cliff_point
           period(n) == IF since(n) \div frequency < number THEN since(n) \div frequency
                                                            ELSE number
<1>1. /\ number \in Nat /\ amount \in Nat /\ cliff \in Nat
      /\ vesting.cliff_point \in Nat /\ frequency \in Nat
    BY DEF VestingState
<1>2. CASE now < vesting.cliff_point
    <2>1. GetMaxUnlockedLiquidity(vesting, now) = 0
        BY <1>1, <1>2 DEF GetMaxUnlockedLiquidity
    <2> QED
        BY <2>1, MaxUnlockedType
<1>3. CASE now >= vesting.cliff_point /\ frequency = 0
    BY <1>1, <1>3 DEF GetMaxUnlockedLiquidity
<1>4. CASE now >= vesting.cliff_point /\ frequency # 0
    <2>1. since(now) \in Nat /\ since(now + 1) \in Nat /\ since(now + 1) >= since(now)
        BY <1>1, <1>4
    <2>2. /\ GetMaxUnlockedLiquidity(vesting, now) = cliff + period(now) * amount
          /\ GetMaxUnlockedLiquidity(vesting, now + 1) = cliff + period(now + 1) * amount
        BY <1>1, <1>4, <2>1 DEF GetMaxUnlockedLiquidity
    <2> HIDE DEF frequency, number, amount, cliff, since
    <2> DEFINE before == since(now) \div frequency
               after  == since(now + 1) \div frequency
    <2>3. before \in Nat /\ after \in Nat /\ since(now) >= before * frequency
        BY <1>1, <1>4, <2>1
    <2>4. before * frequency \in Nat
        BY <1>1, <2>3
    <2>5. since(now + 1) >= before * frequency
        BY <2>1, <2>3, <2>4
    <2>6. after >= before
        BY <1>1, <1>4, <2>1, <2>3, <2>5, DivLowerBound
    <2> HIDE DEF before, after
    <2>7. /\ period(now) \in Nat /\ period(now + 1) \in Nat
          /\ period(now) <= period(now + 1)
        BY <1>1, <2>3, <2>6 DEF before, after
    <2> HIDE DEF period
    <2>8. /\ period(now) * amount \in Nat /\ period(now + 1) * amount \in Nat
          /\ period(now) * amount <= period(now + 1) * amount
        BY <1>1, <2>7
    <2> QED
        BY <1>1, <2>2, <2>8
<1> QED
    BY <1>1, <1>2, <1>3, <1>4

WithinSchedule(vesting, now) ==
    /\ vesting.total_released_liquidity <= GetMaxUnlockedLiquidity(vesting, now)
    /\ GetMaxUnlockedLiquidity(vesting, now) <= GetTotalLockAmount(vesting)

LEMMA TickSchedule ==
    ASSUME TypeOK, ReleasesFollowSchedule, Tick
    PROVE  ReleasesFollowSchedule'
<1> SUFFICES ASSUME NEW v \in DOMAIN vestings
             PROVE  WithinSchedule(vestings[v], clock + 1)
    BY DEF ReleasesFollowSchedule, WithinSchedule, Tick
<1>1. /\ vestings[v] \in VestingState /\ clock \in Nat /\ clock + 1 \in Nat
      /\ vestings[v].total_released_liquidity \in Nat
    BY DEF TypeOK, VestingState
<1>2. WithinSchedule(vestings[v], clock)
    BY DEF ReleasesFollowSchedule, WithinSchedule
<1>3. /\ GetMaxUnlockedLiquidity(vestings[v], clock) \in Nat
      /\ GetMaxUnlockedLiquidity(vestings[v], clock + 1) \in Nat
      /\ GetMaxUnlockedLiquidity(vestings[v], clock + 1) <= GetTotalLockAmount(vestings[v])
    BY <1>1, MaxUnlockedType
<1>4. GetMaxUnlockedLiquidity(vestings[v], clock)
        <= GetMaxUnlockedLiquidity(vestings[v], clock + 1)
    BY <1>1, MaxUnlockedGrows
<1> QED
    BY <1>1, <1>2, <1>3, <1>4 DEF WithinSchedule

LEMMA LockSchedule ==
    ASSUME TypeOK, ReleasesFollowSchedule, NEW p \in PositionId, NEW v \in VestingId,
           NEW params \in VestingParameters, NEW cliff_point \in Nat,
           LockPosition(p, v, params, cliff_point)
    PROVE  ReleasesFollowSchedule'
<1> DEFINE new == NewVesting(p, cliff_point, params)
<1>1. new \in VestingState /\ new.total_released_liquidity = 0
    BY DEF NewVesting, VestingState, VestingParameters
<1>2. vestings' = Put(vestings, v, new) /\ clock' = clock /\ clock \in Nat
    BY DEF LockPosition, TypeOK
<1> HIDE DEF new
<1>3. WithinSchedule(new, clock)
    <2>1. /\ GetMaxUnlockedLiquidity(new, clock) \in Nat
          /\ GetMaxUnlockedLiquidity(new, clock) <= GetTotalLockAmount(new)
        BY <1>1, <1>2, MaxUnlockedType
    <2> QED
        BY <1>1, <2>1 DEF WithinSchedule
<1>4. ASSUME NEW w \in DOMAIN vestings'
      PROVE  WithinSchedule(vestings'[w], clock)
    BY <1>2, <1>3 DEF Put, ReleasesFollowSchedule, WithinSchedule
<1> QED
    BY <1>2, <1>4 DEF ReleasesFollowSchedule, WithinSchedule

LEMMA RefreshSchedule ==
    ASSUME TypeOK, ReleasesFollowSchedule, NEW v \in VestingId, RefreshVesting(v)
    PROVE  ReleasesFollowSchedule'
<1> DEFINE old      == vestings[v]
           released == GetNewReleaseLiquidity(old, clock)
           updated  == AccumulateReleasedLiquidity(old, released)
<1>1. /\ v \in DOMAIN vestings /\ old \in VestingState /\ clock \in Nat /\ clock' = clock
      /\ vestings' = IF Done(updated) THEN Drop(vestings, v) ELSE [vestings EXCEPT ![v] = updated]
    BY DEF TypeOK, RefreshVesting
<1>2. GetMaxUnlockedLiquidity(old, clock) \in Nat /\ old.total_released_liquidity \in Nat
    BY <1>1, MaxUnlockedType DEF VestingState
<1>3. updated.total_released_liquidity = GetMaxUnlockedLiquidity(old, clock)
    BY <1>1, <1>2 DEF AccumulateReleasedLiquidity, GetNewReleaseLiquidity, VestingState
<1>4. /\ GetMaxUnlockedLiquidity(updated, clock) = GetMaxUnlockedLiquidity(old, clock)
      /\ GetTotalLockAmount(updated) = GetTotalLockAmount(old)
    <2> DEFINE total == old.total_released_liquidity + released
    <2>1. updated = [old EXCEPT !.total_released_liquidity = total]
        BY DEF AccumulateReleasedLiquidity
    <2> HIDE DEF total
    <2>2. /\ updated.cliff_point = old.cliff_point
          /\ updated.period_frequency = old.period_frequency
          /\ updated.cliff_unlock_liquidity = old.cliff_unlock_liquidity
          /\ updated.liquidity_per_period = old.liquidity_per_period
          /\ updated.number_of_period = old.number_of_period
        BY <1>1, <2>1 DEF VestingState
    <2> HIDE DEF updated
    <2> QED
        BY <2>2, Zenon DEF GetMaxUnlockedLiquidity, GetTotalLockAmount
<1>5. WithinSchedule(updated, clock)
    <2>1. GetMaxUnlockedLiquidity(old, clock) <= GetTotalLockAmount(old)
        BY <1>1, MaxUnlockedType
    <2> QED
        BY <1>2, <1>3, <1>4, <2>1 DEF WithinSchedule
<1> HIDE DEF updated
<1>6. ASSUME NEW w \in DOMAIN vestings'
      PROVE  WithinSchedule(vestings'[w], clock)
    <2>1. CASE Done(updated)
        BY <1>1, <1>6, <2>1 DEF Drop, ReleasesFollowSchedule, WithinSchedule
    <2>2. CASE ~Done(updated)
        BY <1>1, <1>5, <1>6, <2>2 DEF ReleasesFollowSchedule, WithinSchedule
    <2> QED
        BY <2>1, <2>2
<1> QED
    BY <1>1, <1>6 DEF ReleasesFollowSchedule, WithinSchedule

(* Every other instruction leaves the locks and the clock alone.             *)
LEMMA OthersSchedule ==
    ASSUME TypeOK, ReleasesFollowSchedule,
           \/ PositionInstruction
           \/ TradeInstruction
           \/ RewardInstruction
           \/ SetPoolStatus
           \/ \E p \in PositionId, amount \in PermanentLockAmounts :
                 PermanentLockPosition(p, amount)
           \/ \E first, second \in PositionId, numerators \in SplitNumerators :
                 SplitPosition(first, second, numerators)
           \/ UNCHANGED vars
    PROVE  ReleasesFollowSchedule'
<1>1. UNCHANGED <<clock, vestings>>
    <2>1. CASE PositionInstruction
        BY <2>1 DEF PositionInstruction, CreatePosition, ClosePosition, ClaimPositionFee,
                    AddLiquidity, RemoveLiquidity
    <2>2. CASE TradeInstruction
        BY <2>2 DEF TradeInstruction, Swap, ClaimProtocolFee, ClaimPartnerFee
    <2>3. CASE RewardInstruction
        BY <2>3 DEF RewardInstruction, InitializeReward, FundReward, ClaimReward,
                    WithdrawIneligibleReward, UpdateRewardDuration, UpdateRewardFunder,
                    FreezeRewardVault
    <2>4. CASE \/ SetPoolStatus
               \/ \E p \in PositionId, amount \in PermanentLockAmounts :
                     PermanentLockPosition(p, amount)
               \/ \E first, second \in PositionId, numerators \in SplitNumerators :
                     SplitPosition(first, second, numerators)
               \/ UNCHANGED vars
        BY <2>4 DEF SetPoolStatus, PermanentLockPosition, SplitPosition, vars
    <2> QED
        BY <2>1, <2>2, <2>3, <2>4
<1> QED
    BY <1>1 DEF ReleasesFollowSchedule

(* A lock has never released more than its schedule allows, nor more than    *)
(* was locked, whenever and however often anyone refreshes it.               *)
THEOREM ScheduleSafety == Spec => []ReleasesFollowSchedule
<1>1. Init => ReleasesFollowSchedule
    BY DEF Init, InitializePool, ReleasesFollowSchedule
<1>2. TypeInv /\ ReleasesFollowSchedule /\ [Next]_vars => ReleasesFollowSchedule'
    <2> SUFFICES ASSUME TypeOK, ReleasesFollowSchedule, [Next]_vars PROVE ReleasesFollowSchedule'
        BY DEF TypeInv
    <2>1. CASE LockInstruction
        <3>1. clock \in Nat
            BY DEF TypeOK
        <3> QED
            BY <2>1, <3>1, LockSchedule, RefreshSchedule, OthersSchedule, InputTypes
               DEF LockInstruction
    <2> QED
        BY <2>1, TickSchedule, OthersSchedule DEF Next, Instruction
<1> QED
    BY <1>1, <1>2, TypeInvariance, PTL DEF Spec
-----------------------------------------------------------------------------
(* PositionCountIsExact.                                                     *)

CountInv == IsFiniteSet(DOMAIN positions) /\ PositionCountIsExact

LEMMA CreatePositionCount ==
    ASSUME TypeOK, CountInv, NEW p \in PositionId, CreatePosition(p)
    PROVE  CountInv'
<1>1. p \notin DOMAIN positions /\ DOMAIN positions' = DOMAIN positions \cup {p}
    BY DEF CreatePosition, Put
<1>2. pool'.total_position = pool.total_position + 1
    BY DEF CreatePosition, TypeOK, PoolState
<1> QED
    BY <1>1, <1>2, FS_AddElement DEF CountInv, PositionCountIsExact

LEMMA ClosePositionCount ==
    ASSUME TypeOK, CountInv, NEW p \in PositionId, ClosePosition(p)
    PROVE  CountInv'
<1>1. p \in DOMAIN positions /\ DOMAIN positions' = DOMAIN positions \ {p}
    BY DEF ClosePosition, Drop
<1>2. pool'.total_position = pool.total_position - 1
    BY DEF ClosePosition, TypeOK, PoolState
<1> QED
    BY <1>1, <1>2, FS_RemoveElement DEF CountInv, PositionCountIsExact

SameCount ==
    DOMAIN positions' = DOMAIN positions /\ pool'.total_position = pool.total_position

LEMMA PositionInstructionCount ==
    ASSUME TypeOK, CountInv, PositionInstruction
    PROVE  CountInv'
<1>1. ASSUME NEW p, NEW delta, NEW threshold,
             AddLiquidity(p, delta, threshold) \/ RemoveLiquidity(p, delta, threshold)
      PROVE  SameCount
    BY <1>1 DEF AddLiquidity, RemoveLiquidity, TypeOK, PoolState, SameCount
<1>2. ASSUME NEW p, ClaimPositionFee(p) PROVE SameCount
    BY <1>2 DEF ClaimPositionFee, SameCount
<1>3. SameCount => CountInv'
    BY DEF CountInv, PositionCountIsExact, SameCount
<1> QED
    BY <1>1, <1>2, <1>3, CreatePositionCount, ClosePositionCount DEF PositionInstruction

LEMMA OthersCount ==
    ASSUME TypeInv, CountInv,
           \/ LockInstruction
           \/ TradeInstruction
           \/ RewardInstruction
           \/ SetPoolStatus
           \/ Tick
           \/ UNCHANGED vars
    PROVE  CountInv'
<1> USE DEF TypeInv
<1>0. pool \in PoolState
    BY DEF TypeOK
<1>1. ASSUME LockInstruction PROVE SameCount
    BY <1>0, <1>1 DEF LockInstruction, LockPosition, RefreshVesting, PermanentLockPosition,
                      SplitPosition, PoolState, SameCount
<1>2. ASSUME TradeInstruction PROVE SameCount
    <2>1. ASSUME NEW amount_in \in Nat, NEW a_for_b \in BOOLEAN, NEW has_referral \in BOOLEAN,
                 NEW is_whitelisted_vault, NEW minimum_amount_out,
                 Swap(amount_in, a_for_b, has_referral, is_whitelisted_vault, minimum_amount_out)
          PROVE  SameCount
        <3>1. pool'.total_position = pool.total_position
            BY <1>0, <2>1 DEF Swap, ApplySwapResult, PoolState
        <3> QED
            BY <2>1, <3>1 DEF Swap, SameCount
    <2>2. ASSUME NEW max_amount, ClaimProtocolFee(max_amount) \/ ClaimPartnerFee(max_amount)
          PROVE  SameCount
        BY <1>0, <2>2 DEF ClaimProtocolFee, ClaimPartnerFee, PoolState, SameCount
    <2> QED
        BY <1>2, <2>1, <2>2, InputTypes DEF TradeInstruction
<1>3. ASSUME RewardInstruction PROVE SameCount
    <2>1. ASSUME NEW i \in RewardIndex, NEW signer \in Key, NEW funder \in Key, NEW duration,
                 \/ InitializeReward(i, signer, funder, duration)
                 \/ UpdateRewardDuration(i, signer, duration)
                 \/ UpdateRewardFunder(i, signer, funder)
                 \/ WithdrawIneligibleReward(i, signer)
          PROVE  SameCount
        BY <2>1 DEF InitializeReward, UpdateRewardDuration, UpdateRewardFunder,
                    WithdrawIneligibleReward, SameCount
    <2>2. ASSUME NEW i \in RewardIndex, NEW signer \in Key, NEW amount, NEW carry_forward,
                 FundReward(i, signer, amount, carry_forward)
          PROVE  SameCount
        BY <2>2 DEF FundReward, SameCount
    <2>3. ASSUME NEW p \in PositionId, NEW i \in RewardIndex, NEW skip_reward,
                 ClaimReward(p, i, skip_reward)
          PROVE  SameCount
        BY <2>3 DEF ClaimReward, SameCount
    <2>4. ASSUME NEW i \in RewardIndex, FreezeRewardVault(i) PROVE SameCount
        BY <2>4 DEF FreezeRewardVault, SameCount
    <2> QED
        BY <1>3, <2>1, <2>2, <2>3, <2>4 DEF RewardInstruction
<1>4. ASSUME SetPoolStatus \/ Tick \/ UNCHANGED vars PROVE SameCount
    BY <1>0, <1>4 DEF SetPoolStatus, Tick, vars, PoolState, SameCount
<1>5. SameCount
    BY <1>1, <1>2, <1>3, <1>4
<1> QED
    BY <1>5 DEF CountInv, PositionCountIsExact, SameCount

LEMMA InitCount == Init => CountInv
<1> SUFFICES ASSUME NEW p \in PositionId, NEW sqrt_price \in InitialSqrtPrices,
                    NEW liquidity \in LiquidityDeltas, InitializePool(p, sqrt_price, liquidity)
             PROVE  CountInv
    BY DEF Init
<1>1. DOMAIN positions = {p} /\ pool.total_position = 1
    BY DEF InitializePool
<1> QED
    BY <1>1, FS_Singleton DEF CountInv, PositionCountIsExact

LEMMA CountInvariance == Spec => []CountInv
<1>1. Init => CountInv
    BY InitCount
<1>2. TypeInv /\ CountInv /\ [Next]_vars => CountInv'
    BY PositionInstructionCount, OthersCount DEF Next, Instruction, TypeInv
<1> QED
    BY <1>1, <1>2, TypeInvariance, PTL DEF Spec

(* metrics.total_position is the number of open positions: the unchecked     *)
(* decrement of close_position never wraps.                                  *)
THEOREM PositionCountSafety == Spec => []PositionCountIsExact
<1>1. CountInv => PositionCountIsExact
    BY DEF CountInv
<1> QED
    BY <1>1, CountInvariance, PTL
-----------------------------------------------------------------------------
(* ImplementsLedger.                                                         *)

(* The three kinds of liquidity of two values of a position agree.           *)
SameLiquidity(x, y) ==
    /\ x.unlocked_liquidity = y.unlocked_liquidity
    /\ x.vested_liquidity = y.vested_liquidity
    /\ x.permanent_locked_liquidity = y.permanent_locked_liquidity

(* The ledger of the positions that exist.                                   *)
LEMMA LedgerTypes ==
    ASSUME TypeOK, NEW p \in DOMAIN positions
    PROVE  /\ p \in PositionId
           /\ Free[p] = positions[p].unlocked_liquidity /\ Free[p] \in Nat
           /\ Vested[p] = positions[p].vested_liquidity /\ Vested[p] \in Nat
           /\ Permanent[p] = positions[p].permanent_locked_liquidity /\ Permanent[p] \in Nat
BY DEF TypeOK, PositionState, Free, Vested, Permanent, LiquidityOf

(* A step on one position changes the ledger there only, and not even there  *)
(* when it leaves the position's liquidity as it is.                         *)
LEMMA OneChange ==
    ASSUME TypeOK, NEW p \in DOMAIN positions, NEW q,
           positions' = [positions EXCEPT ![p] = q]
    PROVE  /\ DOMAIN positions' = DOMAIN positions
           /\ Free' = [Free EXCEPT ![p] = q.unlocked_liquidity]
           /\ Free'[p] = q.unlocked_liquidity
           /\ q.unlocked_liquidity = Free[p] => Free' = Free
           /\ Vested' = [Vested EXCEPT ![p] = q.vested_liquidity]
           /\ Vested'[p] = q.vested_liquidity
           /\ q.vested_liquidity = Vested[p] => Vested' = Vested
           /\ Permanent' = [Permanent EXCEPT ![p] = q.permanent_locked_liquidity]
           /\ Permanent'[p] = q.permanent_locked_liquidity
           /\ q.permanent_locked_liquidity = Permanent[p] => Permanent' = Permanent
<1>1. DOMAIN positions' = DOMAIN positions /\ p \in PositionId
    BY DEF TypeOK
<1>2. \A r \in PositionId : LiquidityOf(r)' = IF r = p THEN q ELSE LiquidityOf(r)
    BY <1>1 DEF LiquidityOf
<1>3. /\ Free' = [Free EXCEPT ![p] = q.unlocked_liquidity]
      /\ Vested' = [Vested EXCEPT ![p] = q.vested_liquidity]
      /\ Permanent' = [Permanent EXCEPT ![p] = q.permanent_locked_liquidity]
    BY <1>1, <1>2 DEF Free, Vested, Permanent
<1>4. /\ Free'[p] = q.unlocked_liquidity
      /\ Vested'[p] = q.vested_liquidity
      /\ Permanent'[p] = q.permanent_locked_liquidity
    BY <1>1, <1>2 DEF Free, Vested, Permanent
<1>5. ASSUME q.unlocked_liquidity = Free[p] PROVE Free' = Free
    <2>1. \A r \in PositionId : LiquidityOf(r)'.unlocked_liquidity = LiquidityOf(r).unlocked_liquidity
        BY <1>1, <1>2, <1>5 DEF Free
    <2> QED
        BY <2>1 DEF Free
<1>6. ASSUME q.vested_liquidity = Vested[p] PROVE Vested' = Vested
    <2>1. \A r \in PositionId : LiquidityOf(r)'.vested_liquidity = LiquidityOf(r).vested_liquidity
        BY <1>1, <1>2, <1>6 DEF Vested
    <2> QED
        BY <2>1 DEF Vested
<1>7. ASSUME q.permanent_locked_liquidity = Permanent[p] PROVE Permanent' = Permanent
    <2>1. \A r \in PositionId :
            LiquidityOf(r)'.permanent_locked_liquidity = LiquidityOf(r).permanent_locked_liquidity
        BY <1>1, <1>2, <1>7 DEF Permanent
    <2> QED
        BY <2>1 DEF Permanent
<1> QED
    BY <1>1, <1>3, <1>4, <1>5, <1>6, <1>7

LEMMA NoChange ==
    ASSUME TypeOK, NEW p \in DOMAIN positions, NEW q,
           positions' = [positions EXCEPT ![p] = q], SameLiquidity(q, positions[p])
    PROVE  UNCHANGED <<DOMAIN positions, Free, Vested, Permanent>>
<1>1. /\ q.unlocked_liquidity = Free[p]
      /\ q.vested_liquidity = Vested[p]
      /\ q.permanent_locked_liquidity = Permanent[p]
    BY LedgerTypes DEF SameLiquidity
<1>2. Free' = Free /\ Vested' = Vested /\ Permanent' = Permanent
    BY <1>1, OneChange
<1>3. DOMAIN positions' = DOMAIN positions
    OBVIOUS
<1> QED
    BY <1>2, <1>3

(* Settling fees and rewards leaves the liquidity of a position as it is.    *)
LEMMA RewardKeepsLiquidity ==
    ASSUME NEW position \in PositionState, NEW infos
    PROVE  SameLiquidity(UpdatePositionReward(position, infos), position)
BY DEF SameLiquidity, UpdatePositionReward, PositionState

LEMMA FeeKeepsLiquidity ==
    ASSUME NEW position \in PositionState, NEW fee_per_liquidity
    PROVE  SameLiquidity(UpdateFee(position, fee_per_liquidity), position)
BY DEF SameLiquidity, UpdateFee, PositionState

LEMMA SettledKeepsLiquidity ==
    ASSUME TypeOK, CanUpdateRewards, rewards' = UpdatedRewards,
           NEW p \in DOMAIN positions, CanSettle(p)
    PROVE  Settled(p) \in PositionState /\ SameLiquidity(Settled(p), positions[p])
<1>1. positions[p] \in PositionState /\ rewards' \in [RewardIndex -> RewardInfo]
    BY UpdatedRewardsType DEF TypeOK
<1>2. UpdatePositionReward(positions[p], rewards') \in PositionState
    BY <1>1, UpdatePositionRewardType DEF CanSettle
<1> QED
    BY <1>1, <1>2, SettledType, RewardKeepsLiquidity, FeeKeepsLiquidity
    DEF Settled, SameLiquidity
-----------------------------------------------------------------------------
LEMMA CreatePositionLedger ==
    ASSUME TypeInv, NEW p \in PositionId, CreatePosition(p)
    PROVE  Ledger!Open(p)
<1>1. DOMAIN positions' = DOMAIN positions \cup {p} /\ p \notin DOMAIN positions
    BY DEF CreatePosition, Put
<1>2. \A r \in PositionId : LiquidityOf(r)' = LiquidityOf(r)
    BY <1>1 DEF LiquidityOf, CreatePosition, Put
<1>3. UNCHANGED <<Free, Vested, Permanent>>
    BY <1>2 DEF Free, Vested, Permanent
<1>4. UNCHANGED <<pool.liquidity, pool.permanent_lock_liquidity>>
    BY DEF CreatePosition, TypeInv, TypeOK, PoolState
<1> QED
    BY <1>1, <1>3, <1>4 DEF Ledger!Open

LEMMA ClosePositionLedger ==
    ASSUME TypeInv, NEW p \in PositionId, ClosePosition(p)
    PROVE  Ledger!Close(p)
<1>1. p \in DOMAIN positions /\ DOMAIN positions' = DOMAIN positions \ {p}
    BY DEF ClosePosition, Drop
<1>2. TypeOK
    BY DEF TypeInv
<1>3. Free[p] = 0 /\ Vested[p] = 0 /\ Permanent[p] = 0
    BY <1>1, <1>2, LedgerTypes DEF ClosePosition, IsEmpty, GetTotalLiquidity
<1>4. \A r \in PositionId \ {p} : LiquidityOf(r)' = LiquidityOf(r)
    BY <1>1 DEF LiquidityOf, ClosePosition, Drop
<1>5. LiquidityOf(p)' = NewPosition(0)
    BY <1>1 DEF LiquidityOf
<1>6. UNCHANGED <<Free, Vested, Permanent>>
    <2>1. /\ NewPosition(0).unlocked_liquidity = 0 /\ NewPosition(0).vested_liquidity = 0
          /\ NewPosition(0).permanent_locked_liquidity = 0
        BY DEF NewPosition
    <2>2. \A r \in PositionId : SameLiquidity(LiquidityOf(r)', LiquidityOf(r))
        BY <1>3, <1>4, <1>5, <2>1 DEF SameLiquidity, Free, Vested, Permanent
    <2> QED
        BY <2>2 DEF SameLiquidity, Free, Vested, Permanent
<1>7. UNCHANGED <<pool.liquidity, pool.permanent_lock_liquidity>>
    BY DEF ClosePosition, TypeInv, TypeOK, PoolState
<1> QED
    BY <1>1, <1>3, <1>6, <1>7 DEF Ledger!Close

LEMMA AddLiquidityLedger ==
    ASSUME TypeInv, NEW p \in PositionId, NEW delta \in Nat, NEW threshold,
           AddLiquidity(p, delta, threshold)
    PROVE  Ledger!Add(p)
<1> DEFINE q == AddLiquidityTo(Settled(p), delta)
<1>1. TypeOK /\ p \in DOMAIN positions /\ delta > 0
    BY DEF TypeInv, AddLiquidity
<1>2. Settled(p) \in PositionState /\ SameLiquidity(Settled(p), positions[p])
    BY <1>1, SettledKeepsLiquidity DEF AddLiquidity
<1>3. /\ q.unlocked_liquidity = Free[p] + delta
      /\ q.vested_liquidity = Vested[p] /\ q.permanent_locked_liquidity = Permanent[p]
    BY <1>1, <1>2, LedgerTypes DEF SameLiquidity, AddLiquidityTo, PositionState
<1>4. positions' = [positions EXCEPT ![p] = q]
    BY DEF AddLiquidity
<1> HIDE DEF q
<1>5. /\ DOMAIN positions' = DOMAIN positions
      /\ Free' = [Free EXCEPT ![p] = Free'[p]] /\ Free'[p] = Free[p] + delta
    BY <1>1, <1>3, <1>4, OneChange
<1>6. Vested' = Vested /\ Permanent' = Permanent
    BY <1>1, <1>3, <1>4, OneChange
<1>7. /\ pool'.liquidity = pool.liquidity + delta
      /\ pool'.permanent_lock_liquidity = pool.permanent_lock_liquidity
    BY DEF AddLiquidity, TypeInv, TypeOK, PoolState
<1>8. Free[p] \in Nat
    BY <1>1, LedgerTypes
<1>9. Free'[p] \in Nat /\ Free'[p] > Free[p] /\ Free'[p] - Free[p] = delta
    BY <1>1, <1>5, <1>8
<1> QED
    BY <1>1, <1>5, <1>6, <1>7, <1>9 DEF Ledger!Add

LEMMA RemoveLiquidityLedger ==
    ASSUME TypeInv, NEW p \in PositionId, NEW delta \in Nat, NEW threshold,
           RemoveLiquidity(p, delta, threshold)
    PROVE  Ledger!Remove(p)
<1> DEFINE q == RemoveUnlockedLiquidity(Settled(p), delta)
<1>1. TypeOK /\ p \in DOMAIN positions /\ delta > 0 /\ delta <= positions[p].unlocked_liquidity
    BY DEF TypeInv, RemoveLiquidity
<1>2. Settled(p) \in PositionState /\ SameLiquidity(Settled(p), positions[p])
    BY <1>1, SettledKeepsLiquidity DEF RemoveLiquidity
<1>3. /\ q.unlocked_liquidity = Free[p] - delta
      /\ q.vested_liquidity = Vested[p] /\ q.permanent_locked_liquidity = Permanent[p]
    BY <1>1, <1>2, LedgerTypes DEF SameLiquidity, RemoveUnlockedLiquidity, PositionState
<1>4. positions' = [positions EXCEPT ![p] = q]
    BY DEF RemoveLiquidity
<1> HIDE DEF q
<1>5. /\ DOMAIN positions' = DOMAIN positions
      /\ Free' = [Free EXCEPT ![p] = Free'[p]] /\ Free'[p] = Free[p] - delta
    BY <1>1, <1>3, <1>4, OneChange
<1>6. Vested' = Vested /\ Permanent' = Permanent
    BY <1>1, <1>3, <1>4, OneChange
<1>7. /\ pool'.liquidity = pool.liquidity - delta
      /\ pool'.permanent_lock_liquidity = pool.permanent_lock_liquidity
    BY DEF RemoveLiquidity, TypeInv, TypeOK, PoolState
<1>8. Free[p] \in Nat /\ delta <= Free[p]
    BY <1>1, LedgerTypes
<1>9. Free'[p] \in Nat /\ Free'[p] < Free[p] /\ Free[p] - Free'[p] = delta
    BY <1>1, <1>5, <1>8
<1> QED
    BY <1>1, <1>5, <1>6, <1>7, <1>9 DEF Ledger!Remove

LEMMA LockPositionLedger ==
    ASSUME TypeInv, NEW p \in PositionId, NEW v, NEW params \in VestingParameters, NEW cliff_point,
           LockPosition(p, v, params, cliff_point)
    PROVE  Ledger!LockOrRelease(p)
<1> DEFINE amount == GetTotalLockAmount(params)
           q == Lock(positions[p], amount)
<1>1. TypeOK /\ p \in DOMAIN positions /\ amount <= positions[p].unlocked_liquidity
    <2>1. amount \in Nat
        BY TotalLockType DEF VestingParameters
    <2> QED
        BY <2>1 DEF TypeInv, TypeOK, PositionState, LockPosition
<1>2. amount \in Nat
    BY TotalLockType DEF VestingParameters
<1>3. positions' = [positions EXCEPT ![p] = q] /\ pool' = pool
    BY DEF LockPosition
<1> HIDE DEF amount
<1>4. /\ q.unlocked_liquidity = Free[p] - amount
      /\ q.vested_liquidity = Vested[p] + amount
      /\ q.permanent_locked_liquidity = Permanent[p]
    BY <1>1, LedgerTypes DEF Lock, TypeOK, PositionState
<1> HIDE DEF q
<1>5. /\ Free[p] \in Nat /\ Vested[p] \in Nat /\ amount <= Free[p]
    BY <1>1, LedgerTypes
<1>6. /\ Free[p] - amount \in Nat /\ Vested[p] + amount \in Nat
      /\ (Free[p] - amount) + (Vested[p] + amount) = Free[p] + Vested[p]
    BY <1>2, <1>5
<1>7. /\ DOMAIN positions' = DOMAIN positions /\ Permanent' = Permanent
      /\ Free' = [Free EXCEPT ![p] = q.unlocked_liquidity] /\ Free'[p] = q.unlocked_liquidity
      /\ Vested' = [Vested EXCEPT ![p] = q.vested_liquidity] /\ Vested'[p] = q.vested_liquidity
    BY <1>1, <1>3, <1>4, OneChange
<1> QED
    BY <1>1, <1>3, <1>4, <1>6, <1>7 DEF Ledger!LockOrRelease

LEMMA RefreshVestingLedger ==
    ASSUME TypeInv, NEW v \in VestingId, RefreshVesting(v)
    PROVE  \E p \in PositionId : Ledger!LockOrRelease(p)
<1> DEFINE p      == vestings[v].position
           amount == GetNewReleaseLiquidity(vestings[v], clock)
           q      == ReleaseVestedLiquidity(positions[p], amount)
<1>1. /\ TypeOK /\ v \in DOMAIN vestings /\ vestings[v] \in VestingState /\ clock \in Nat
      /\ p \in DOMAIN positions /\ p \in PositionId /\ positions[p] \in PositionState
      /\ amount >= 0 /\ amount <= positions[p].vested_liquidity
      /\ positions' = [positions EXCEPT ![p] = q] /\ pool' = pool
    BY DEF TypeInv, TypeOK, RefreshVesting
<1>2. amount \in Nat
    <2>1. vestings[v].total_released_liquidity \in Nat
        BY <1>1 DEF VestingState
    <2> QED
        BY <1>1, <2>1, MaxUnlockedType DEF GetNewReleaseLiquidity
<1> HIDE DEF amount, p
<1>3. /\ q.unlocked_liquidity = Free[p] + amount
      /\ q.vested_liquidity = Vested[p] - amount
      /\ q.permanent_locked_liquidity = Permanent[p]
    BY <1>1, LedgerTypes DEF ReleaseVestedLiquidity, PositionState
<1> HIDE DEF q
<1>4. Free[p] \in Nat /\ Vested[p] \in Nat /\ amount <= Vested[p]
    BY <1>1, LedgerTypes
<1>5. /\ Free[p] + amount \in Nat /\ Vested[p] - amount \in Nat
      /\ (Free[p] + amount) + (Vested[p] - amount) = Free[p] + Vested[p]
    BY <1>2, <1>4
<1>6. Ledger!LockOrRelease(p)
    <2>1. /\ DOMAIN positions' = DOMAIN positions /\ Permanent' = Permanent
          /\ Free' = [Free EXCEPT ![p] = q.unlocked_liquidity] /\ Free'[p] = q.unlocked_liquidity
          /\ Vested' = [Vested EXCEPT ![p] = q.vested_liquidity]
          /\ Vested'[p] = q.vested_liquidity
        BY <1>1, <1>3, OneChange
    <2> QED
        BY <1>1, <1>3, <1>5, <2>1 DEF Ledger!LockOrRelease
<1> QED
    BY <1>1, <1>6

LEMMA PermanentLockLedger ==
    ASSUME TypeInv, NEW p \in PositionId, NEW amount \in Nat, PermanentLockPosition(p, amount)
    PROVE  Ledger!LockForever(p)
<1> DEFINE q == PermanentLockLiquidity(positions[p], amount)
<1>1. /\ TypeOK /\ p \in DOMAIN positions /\ amount <= positions[p].unlocked_liquidity
      /\ positions' = [positions EXCEPT ![p] = q]
    BY DEF TypeInv, TypeOK, PositionState, PermanentLockPosition
<1>2. /\ q.unlocked_liquidity = Free[p] - amount
      /\ q.vested_liquidity = Vested[p]
      /\ q.permanent_locked_liquidity = Permanent[p] + amount
    BY <1>1, LedgerTypes DEF PermanentLockLiquidity, TypeOK, PositionState
<1> HIDE DEF q
<1>3. Free[p] \in Nat /\ Permanent[p] \in Nat /\ amount <= Free[p]
    BY <1>1, LedgerTypes
<1>4. /\ Free[p] - amount \in Nat /\ Permanent[p] + amount >= Permanent[p]
      /\ (Free[p] - amount) + (Permanent[p] + amount) = Free[p] + Permanent[p]
      /\ (Permanent[p] + amount) - Permanent[p] = amount
    BY <1>3
<1>5. /\ pool'.liquidity = pool.liquidity
      /\ pool'.permanent_lock_liquidity = pool.permanent_lock_liquidity + amount
    BY DEF PermanentLockPosition, TypeInv, TypeOK, PoolState
<1> QED
    BY <1>1, <1>2, <1>4, <1>5, OneChange DEF Ledger!LockForever

(* A step on two positions.                                                  *)
LEMMA TwoChanges ==
    ASSUME TypeOK, NEW p \in DOMAIN positions, NEW r \in DOMAIN positions, p # r, NEW x, NEW y,
           DOMAIN positions' = DOMAIN positions, positions'[p] = x, positions'[r] = y,
           \A s \in DOMAIN positions \ {p, r} : positions'[s] = positions[s]
    PROVE  /\ Free' = [Free EXCEPT ![p] = x.unlocked_liquidity, ![r] = y.unlocked_liquidity]
           /\ Free'[p] = x.unlocked_liquidity
           /\ Permanent' = [Permanent EXCEPT ![p] = x.permanent_locked_liquidity,
                                             ![r] = y.permanent_locked_liquidity]
           /\ Permanent'[p] = x.permanent_locked_liquidity
           /\ x.vested_liquidity = Vested[p] /\ y.vested_liquidity = Vested[r]
                => Vested' = Vested
<1>1. p \in PositionId /\ r \in PositionId
    BY DEF TypeOK
<1>2. \A s \in PositionId :
        LiquidityOf(s)' = IF s = p THEN x ELSE IF s = r THEN y ELSE LiquidityOf(s)
    BY <1>1 DEF LiquidityOf
<1>3. Free' = [Free EXCEPT ![p] = x.unlocked_liquidity, ![r] = y.unlocked_liquidity]
    BY <1>1, <1>2 DEF Free
<1>4. Permanent' = [Permanent EXCEPT ![p] = x.permanent_locked_liquidity,
                                     ![r] = y.permanent_locked_liquidity]
    BY <1>1, <1>2 DEF Permanent
<1>5. Free'[p] = x.unlocked_liquidity /\ Permanent'[p] = x.permanent_locked_liquidity
    BY <1>1, <1>2 DEF Free, Permanent
<1>6. ASSUME x.vested_liquidity = Vested[p], y.vested_liquidity = Vested[r]
      PROVE  Vested' = Vested
    <2>1. \A s \in PositionId : LiquidityOf(s)'.vested_liquidity = LiquidityOf(s).vested_liquidity
        BY <1>1, <1>2, <1>6 DEF Vested
    <2> QED
        BY <2>1 DEF Vested
<1> QED
    BY <1>1, <1>3, <1>4, <1>5, <1>6

LEMMA SplitPositionLedger ==
    ASSUME TypeInv, NEW p \in PositionId, NEW r \in PositionId,
           NEW numerators \in SplitParameters, SplitPosition(p, r, numerators)
    PROVE  Ledger!Move(p, r)
<1> DEFINE share == SplitShare(Settled(p), numerators, rewards')
           x     == TakeShare(Settled(p), share)
           y     == GiveShare(Settled(r), share)
<1>1. /\ TypeOK /\ p \in DOMAIN positions /\ r \in DOMAIN positions /\ p # r
      /\ positions[p].vested_liquidity = 0 /\ pool' = pool
      /\ positions' = [positions EXCEPT ![p] = x, ![r] = y]
    BY DEF TypeInv, SplitPosition
<1>2. /\ Settled(p) \in PositionState /\ SameLiquidity(Settled(p), positions[p])
      /\ Settled(r) \in PositionState /\ SameLiquidity(Settled(r), positions[r])
    BY <1>1, SettledKeepsLiquidity DEF SplitPosition
<1>3. share \in Shares /\ ShareIsWithin(share, Settled(p))
    <2>1. numerators \in Numerators
        BY DEF SplitParameters, Numerators, Numerator
    <2> QED
        BY <1>2, <2>1, SplitShareType
<1> HIDE DEF share
<1>4. /\ Free[p] \in Nat /\ Permanent[p] \in Nat /\ share.unlocked \in Nat
      /\ share.permanent \in Nat /\ share.unlocked <= Free[p] /\ share.permanent <= Permanent[p]
      /\ Vested[p] = 0
    BY <1>1, <1>2, <1>3, LedgerTypes DEF SameLiquidity, ShareIsWithin, Shares
<1>5. /\ x.unlocked_liquidity = Free[p] - share.unlocked
      /\ x.vested_liquidity = Vested[p]
      /\ x.permanent_locked_liquidity = Permanent[p] - share.permanent
    BY <1>1, <1>2, LedgerTypes DEF TakeShare, SameLiquidity, PositionState
<1>6. /\ y.unlocked_liquidity = Free[r] + share.unlocked
      /\ y.vested_liquidity = Vested[r]
      /\ y.permanent_locked_liquidity = Permanent[r] + share.permanent
    BY <1>1, <1>2, LedgerTypes DEF GiveShare, SameLiquidity, PositionState
<1> HIDE DEF x, y
<1>7. /\ Free' = [Free EXCEPT ![p] = Free'[p], ![r] = Free[r] + share.unlocked]
      /\ Free'[p] = Free[p] - share.unlocked
      /\ Permanent' = [Permanent EXCEPT ![p] = Permanent'[p],
                                        ![r] = Permanent[r] + share.permanent]
      /\ Permanent'[p] = Permanent[p] - share.permanent
      /\ Vested' = Vested
      /\ DOMAIN positions' = DOMAIN positions
    <2>1. /\ DOMAIN positions' = DOMAIN positions /\ positions'[p] = x /\ positions'[r] = y
          /\ \A s \in DOMAIN positions \ {p, r} : positions'[s] = positions[s]
        BY <1>1
    <2>2. /\ Free' = [Free EXCEPT ![p] = x.unlocked_liquidity, ![r] = y.unlocked_liquidity]
          /\ Free'[p] = x.unlocked_liquidity
          /\ Permanent' = [Permanent EXCEPT ![p] = x.permanent_locked_liquidity,
                                            ![r] = y.permanent_locked_liquidity]
          /\ Permanent'[p] = x.permanent_locked_liquidity
          /\ x.vested_liquidity = Vested[p] /\ y.vested_liquidity = Vested[r]
               => Vested' = Vested
        BY <1>1, <2>1, TwoChanges
    <2> QED
        BY <1>5, <1>6, <2>1, <2>2
<1>8. /\ Free'[p] \in 0 .. Free[p] /\ Free[p] - Free'[p] = share.unlocked
      /\ Permanent'[p] \in 0 .. Permanent[p] /\ Permanent[p] - Permanent'[p] = share.permanent
    BY <1>4, <1>7
<1>9. /\ Free' = [Free EXCEPT ![p] = Free'[p], ![r] = @ + (Free[p] - Free'[p])]
      /\ Permanent' = [Permanent EXCEPT ![p] = Permanent'[p],
                                        ![r] = @ + (Permanent[p] - Permanent'[p])]
    BY <1>1, <1>7, <1>8
<1> QED
    BY <1>1, <1>4, <1>7, <1>8, <1>9 DEF Ledger!Move
-----------------------------------------------------------------------------
(* The steps that leave the ledger alone.                                    *)
LEMMA ClaimPositionFeeLedger ==
    ASSUME TypeInv, NEW p \in PositionId, ClaimPositionFee(p)
    PROVE  UNCHANGED Ledger!ledgerVars
<1> DEFINE updated == UpdateFee(positions[p], pool.fee_per_liquidity)
<1>1. /\ TypeOK /\ p \in DOMAIN positions /\ positions[p] \in PositionState /\ pool' = pool
      /\ pool.fee_per_liquidity \in [Token -> Nat]
      /\ CanUpdateFee(positions[p], pool.fee_per_liquidity)
      /\ positions' = [positions EXCEPT ![p] = [updated EXCEPT !.fee_pending = NoTokens]]
    BY DEF TypeInv, TypeOK, ClaimPositionFee, PoolState
<1>2. updated \in PositionState /\ SameLiquidity(updated, positions[p])
    BY <1>1, UpdateFeeType, FeeKeepsLiquidity
<1> HIDE DEF updated
<1>3. SameLiquidity([updated EXCEPT !.fee_pending = NoTokens], positions[p])
    BY <1>2 DEF SameLiquidity, PositionState
<1> QED
    BY <1>1, <1>3, NoChange DEF Ledger!ledgerVars

LEMMA ClaimRewardLedger ==
    ASSUME TypeInv, NEW p \in PositionId, NEW i \in RewardIndex, NEW skip_reward,
           ClaimReward(p, i, skip_reward)
    PROVE  UNCHANGED Ledger!ledgerVars
<1> DEFINE updated == UpdatePositionReward(positions[p], rewards')
<1>1. /\ TypeOK /\ p \in DOMAIN positions /\ positions[p] \in PositionState /\ pool' = pool
      /\ rewards' \in [RewardIndex -> RewardInfo]
      /\ CanUpdatePositionReward(positions[p], rewards')
      /\ positions' = [positions EXCEPT ![p] = [updated EXCEPT !.reward_pending[i] = 0]]
    BY UpdatedRewardsKeepDuration DEF TypeInv, TypeOK, ClaimReward
<1>2. updated \in PositionState /\ SameLiquidity(updated, positions[p])
    BY <1>1, UpdatePositionRewardType, RewardKeepsLiquidity
<1> HIDE DEF updated
<1>3. SameLiquidity([updated EXCEPT !.reward_pending[i] = 0], positions[p])
    BY <1>2 DEF SameLiquidity, PositionState
<1> QED
    BY <1>1, <1>3, NoChange DEF Ledger!ledgerVars

LEMMA PositionsFrame ==
    ASSUME positions' = positions,
           pool'.liquidity = pool.liquidity,
           pool'.permanent_lock_liquidity = pool.permanent_lock_liquidity
    PROVE  UNCHANGED Ledger!ledgerVars
BY DEF Ledger!ledgerVars, Free, Vested, Permanent, LiquidityOf

LEMMA TradeLedger ==
    ASSUME TypeInv, TradeInstruction
    PROVE  UNCHANGED Ledger!ledgerVars
<1>1. pool \in PoolState
    BY DEF TypeInv, TypeOK
<1>2. ASSUME NEW dyn, NEW result, NEW a_for_b \in BOOLEAN
      PROVE  /\ ApplySwapResult(dyn, result, a_for_b).liquidity = pool.liquidity
             /\ ApplySwapResult(dyn, result, a_for_b).permanent_lock_liquidity
                   = pool.permanent_lock_liquidity
    BY <1>1 DEF ApplySwapResult, PoolState
<1>3. ASSUME NEW amount_in, NEW a_for_b \in BOOLEAN, NEW has_referral, NEW is_vault, NEW minimum,
             Swap(amount_in, a_for_b, has_referral, is_vault, minimum)
      PROVE  UNCHANGED Ledger!ledgerVars
    <2>1. positions' = positions /\ \E dyn, result : pool' = ApplySwapResult(dyn, result, a_for_b)
        BY <1>3 DEF Swap
    <2> QED
        BY <1>2, <2>1, PositionsFrame
<1>4. ASSUME NEW max_amount, ClaimProtocolFee(max_amount) \/ ClaimPartnerFee(max_amount)
      PROVE  UNCHANGED Ledger!ledgerVars
    <2>1. /\ positions' = positions /\ pool'.liquidity = pool.liquidity
          /\ pool'.permanent_lock_liquidity = pool.permanent_lock_liquidity
        BY <1>1, <1>4 DEF ClaimProtocolFee, ClaimPartnerFee, PoolState
    <2> QED
        BY <2>1, PositionsFrame
<1> QED
    BY <1>3, <1>4 DEF TradeInstruction

LEMMA RewardLedger ==
    ASSUME TypeInv, RewardInstruction
    PROVE  UNCHANGED Ledger!ledgerVars
<1>1. \/ UNCHANGED <<positions, pool>>
      \/ \E i \in RewardIndex, p \in PositionId, skip_reward \in BOOLEAN :
            ClaimReward(p, i, skip_reward)
    BY DEF RewardInstruction, InitializeReward, FundReward, WithdrawIneligibleReward,
           UpdateRewardDuration, UpdateRewardFunder, FreezeRewardVault
<1> QED
    BY <1>1, ClaimRewardLedger, PositionsFrame

LEMMA PositionLedger ==
    ASSUME TypeInv, PositionInstruction
    PROVE  Ledger!LedgerNext \/ UNCHANGED Ledger!ledgerVars
BY PositionInstructionCases, CreatePositionLedger, ClosePositionLedger, ClaimPositionFeeLedger,
   AddLiquidityLedger, RemoveLiquidityLedger DEF Ledger!LedgerNext

LEMMA LockLedger ==
    ASSUME TypeInv, LockInstruction
    PROVE  Ledger!LedgerNext
BY InputTypes, LockPositionLedger, RefreshVestingLedger, PermanentLockLedger, SplitPositionLedger
DEF LockInstruction, Ledger!LedgerNext

LEMMA LedgerStep ==
    TypeInv /\ [Next]_vars => [Ledger!LedgerNext]_(Ledger!ledgerVars)
<1> SUFFICES ASSUME TypeInv, [Next]_vars
             PROVE  Ledger!LedgerNext \/ UNCHANGED Ledger!ledgerVars
    OBVIOUS
<1>1. CASE UNCHANGED vars
    BY <1>1, PositionsFrame DEF vars
<1>2. CASE Tick
    BY <1>2, PositionsFrame DEF Tick
<1>3. CASE SetPoolStatus
    <2>1. /\ positions' = positions /\ pool'.liquidity = pool.liquidity
          /\ pool'.permanent_lock_liquidity = pool.permanent_lock_liquidity
        BY <1>3 DEF SetPoolStatus, TypeInv, TypeOK, PoolState
    <2> QED
        BY <2>1, PositionsFrame
<1>4. CASE PositionInstruction
    BY <1>4, PositionLedger
<1>5. CASE LockInstruction
    BY <1>5, LockLedger
<1>6. CASE TradeInstruction
    BY <1>6, TradeLedger
<1>7. CASE RewardInstruction
    BY <1>7, RewardLedger
<1> QED
    BY <1>1, <1>2, <1>3, <1>4, <1>5, <1>6, <1>7 DEF Next, Instruction

LEMMA LedgerStart == Init => Ledger!LedgerInit
<1> SUFFICES ASSUME NEW p \in PositionId, NEW sqrt_price \in InitialSqrtPrices,
                    NEW liquidity \in LiquidityDeltas, InitializePool(p, sqrt_price, liquidity)
             PROVE  Ledger!LedgerInit
    BY DEF Init
<1>1. /\ DOMAIN positions = {p} /\ positions[p] = NewPosition(liquidity)
      /\ pool.liquidity = liquidity /\ pool.permanent_lock_liquidity = 0
    BY DEF InitializePool
<1>2. \A r \in PositionId :
        LiquidityOf(r) = IF r = p THEN NewPosition(liquidity) ELSE NewPosition(0)
    BY <1>1 DEF LiquidityOf
<1>3. \A n : /\ NewPosition(n).unlocked_liquidity = n
             /\ NewPosition(n).vested_liquidity = 0
             /\ NewPosition(n).permanent_locked_liquidity = 0
    BY DEF NewPosition
<1>4. Free = [r \in PositionId |-> IF r = p THEN pool.liquidity ELSE 0]
    BY <1>1, <1>2, <1>3 DEF Free
<1>5. \A r \in PositionId : Vested[r] = 0 /\ Permanent[r] = 0
    BY <1>2, <1>3 DEF Vested, Permanent
<1> QED
    BY <1>1, <1>4, <1>5 DEF Ledger!LedgerInit, Ledger!NoLiquidity

(* cp-amm implements the liquidity ledger: liquidity enters and leaves only  *)
(* as free liquidity, vested liquidity becomes free again, and permanently   *)
(* locked liquidity never does, for every set of positions and locks, every  *)
(* schedule, split and amount.                                               *)
THEOREM LedgerRefinement == Spec => ImplementsLedger
<1>1. Init => Ledger!LedgerInit
    BY LedgerStart
<1>2. TypeInv /\ [Next]_vars => [Ledger!LedgerNext]_(Ledger!ledgerVars)
    BY LedgerStep
<1> QED
    BY <1>1, <1>2, TypeInvariance, PTL DEF Spec, ImplementsLedger, Ledger!LedgerSpec
-----------------------------------------------------------------------------
LEMMA SwapInputTypes ==
    ASSUME TypeInv
    PROVE  /\ pool.sqrt_price \in Nat \ {0} /\ pool.liquidity \in Nat
           /\ pool.dynamic \in DynamicFeeState /\ clock \in Nat
<1>1. pool.sqrt_price \in Nat \ {0}
    BY PriceTypes DEF TypeInv, PriceInRange
<1> QED
    BY <1>1 DEF TypeInv, TypeOK, PoolState

(* In every reachable state of every pool a quote equals the swap it         *)
(* predicts, although it skips update_pre_swap.                              *)
THEOREM QuoteSafety == Spec => []QuoteMatchesSwap
<1>1. TypeInv => QuoteMatchesSwap
    <2> SUFFICES ASSUME TypeInv PROVE QuoteMatchesSwap
        OBVIOUS
    <2> QED
        BY SwapInputTypes, QuoteSkipsPreSwap DEF QuoteMatchesSwap, ResultOf
<1> QED
    BY <1>1, TypeInvariance, PTL

(* In every reachable state of every pool, swapping an amount and its output *)
(* back returns at most the amount, whatever the fees and the price.         *)
THEOREM RoundTripSafety == Spec => []RoundTripNeverProfits
<1>1. TypeInv => RoundTripNeverProfits
    <2> SUFFICES ASSUME TypeInv, pool.liquidity > 0, NEW amount_in \in SwapAmounts,
                        NEW a_for_b \in BOOLEAN
                 PROVE  OutputBack(ResultOf(pool.sqrt_price, pool.dynamic, amount_in, a_for_b,
                                            FALSE), pool.dynamic, a_for_b) <= amount_in
        BY DEF RoundTripNeverProfits
    <2>1. /\ pool.sqrt_price \in Nat \ {0} /\ pool.liquidity \in Nat \ {0}
          /\ pool.dynamic \in DynamicFeeState /\ clock \in Nat
        BY SwapInputTypes
    <2>2. amount_in \in Nat /\ FALSE \in BOOLEAN
        BY InputTypes
    <2> QED
        BY <2>1, <2>2, ThereAndBackNeverProfits DEF OutputBack, ResultOf
<1> QED
    BY <1>1, TypeInvariance, PTL
=============================================================================
