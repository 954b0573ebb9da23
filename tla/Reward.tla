------------------------------- MODULE Reward -------------------------------
(***************************************************************************)
(* A farming reward of a cp-amm pool (RewardInfo of state/pool.rs): a rate   *)
(* of tokens per second until reward_duration_end, accumulated per unit of   *)
(* liquidity; seconds during which the pool had no liquidity are counted and *)
(* their tokens are "ineligible", withdrawn or carried into the next funding.*)
(***************************************************************************)
EXTENDS Position

CONSTANTS
    Key,        \* the public keys of the instance
    Admins,     \* the keys assert_eq_admin accepts
    Creator,    \* the creator of the pool
    NoKey       \* Pubkey::default

ASSUME KeyAssumption ==
    /\ Admins \subseteq Key
    /\ Creator \in Key
    /\ NoKey \notin Key

RewardInfo ==
    [initialized : BOOLEAN, funder : Key \cup {NoKey}, reward_duration : Nat,
     reward_duration_end : Nat, reward_rate : Nat, reward_per_token_stored : Nat,
     last_update_time : Nat, cumulative_seconds_with_empty_liquidity_reward : Nat]

NoReward ==
    [initialized |-> FALSE, funder |-> NoKey, reward_duration |-> 0,
     reward_duration_end |-> 0, reward_rate |-> 0, reward_per_token_stored |-> 0,
     last_update_time |-> 0, cumulative_seconds_with_empty_liquidity_reward |-> 0]

IsValidFunder(reward, key) == key \in Admins \/ key = reward.funder

(* The creator may edit reward 0 only, even if it is also an admin.          *)
HasAuthorityToEditReward(index, key) ==
    IF key = Creator THEN index = 0 ELSE key \in Admins

InitReward(reward, funder, duration) ==
    [reward EXCEPT !.initialized = TRUE, !.funder = funder, !.reward_duration = duration]

LastTimeRewardApplicable(reward, now) ==
    IF now < reward.reward_duration_end THEN now ELSE reward.reward_duration_end

GetSecondsElapsedSinceLastUpdate(reward, now) ==
    LastTimeRewardApplicable(reward, now) - reward.last_update_time

(* The checked subtraction of get_seconds_elapsed_since_last_update.         *)
CanUpdateReward(reward, now) ==
    reward.initialized => GetSecondsElapsedSinceLastUpdate(reward, now) >= 0

AccumulateRewardPerTokenStored(reward, liquidity, now) ==
    [reward EXCEPT !.reward_per_token_stored =
        @ + MulDivDown(GetSecondsElapsedSinceLastUpdate(reward, now) * reward.reward_rate,
                       LIQUIDITY_SCALE, liquidity)]

AccumulateEmptySeconds(reward, now) ==
    [reward EXCEPT !.cumulative_seconds_with_empty_liquidity_reward =
        @ + GetSecondsElapsedSinceLastUpdate(reward, now)]

(* Mutant: the time of the last update runs past the end of the campaign.    *)
UpdateLastUpdateTime_Unclamped(reward, now) == now

UpdateLastUpdateTime(reward, now) ==
    LastTimeRewardApplicable(reward, now)

UpdateReward(reward, liquidity, now) ==
    LET accrued == IF liquidity > 0 THEN AccumulateRewardPerTokenStored(reward, liquidity, now)
                                    ELSE AccumulateEmptySeconds(reward, now)
    IN  IF reward.initialized
        THEN [accrued EXCEPT !.last_update_time = UpdateLastUpdateTime(reward, now)]
        ELSE reward

IneligibleReward(reward) ==
    MulDivDown(reward.cumulative_seconds_with_empty_liquidity_reward, reward.reward_rate,
               REWARD_RATE_SCALE)

ResetEmptySeconds(reward) ==
    [reward EXCEPT !.cumulative_seconds_with_empty_liquidity_reward = 0]

(* Mutant: what the running campaign has not distributed is counted twice.   *)
UpdateRateAfterFunding_Twice(reward, now, funding_amount) ==
    [reward EXCEPT
        !.reward_rate = reward.reward_rate + MulDivDown(funding_amount, REWARD_RATE_SCALE,
                                                        reward.reward_duration),
        !.last_update_time = now,
        !.reward_duration_end = now + reward.reward_duration]

(* What the running campaign has not distributed yet joins the new funding.  *)
UpdateRateAfterFunding(reward, now, funding_amount) ==
    LET leftover == IF now >= reward.reward_duration_end THEN 0
                    ELSE MulDivDown(reward.reward_rate, reward.reward_duration_end - now,
                                    REWARD_RATE_SCALE)
    IN  [reward EXCEPT
            !.reward_rate = MulDivDown(funding_amount + leftover, REWARD_RATE_SCALE,
                                       reward.reward_duration),
            !.last_update_time = now,
            !.reward_duration_end = now + reward.reward_duration]
=============================================================================
