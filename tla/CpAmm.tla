------------------------------- MODULE CpAmm -------------------------------
(***************************************************************************)
(* The cp-amm program: one pool, its positions, vesting locks, rewards and  *)
(* token vaults.  Every instruction is one Solana transaction, so one       *)
(* action: it takes effect whole or, when a check or a checked subtraction   *)
(* fails, not at all (the action is not enabled).  What interleaves are the  *)
(* instructions of different owners, traders, funders and admins, and time.  *)
(***************************************************************************)
EXTENDS PoolSwap, Reward, Vesting, FiniteSets, Functions

CONSTANTS
    PositionId, VestingId,            \* accounts that positions and locks may use
    PreActivationPoint,               \* from here on the whitelisted vault may swap
    StartTime,                        \* the clock when the pool is created
    MIN_REWARD_DURATION, MAX_REWARD_DURATION,
    \* what callers may pass to the instructions:
    InitialSqrtPrices, LiquidityDeltas, AmountThresholds,
    SwapAmounts, MinimumAmountsOut,
    VestingParameterInputs, CliffPoints, PermanentLockAmounts, SplitNumerators,
    RewardDurations, FundingAmounts, MaxFeeClaims

SplitParameters ==
    LET Numerator == 0 .. SPLIT_POSITION_DENOMINATOR
    IN  [unlocked : Numerator, permanent : Numerator,
         fee : [Token -> Numerator], reward : [RewardIndex -> Numerator]]

ASSUME CpAmmAssumption ==
    /\ PreActivationPoint \in Nat /\ PreActivationPoint <= ActivationPoint
    /\ StartTime \in Nat
    /\ DynamicFee.enabled => StartTime >= DynamicFee.filter_period
    /\ MIN_REWARD_DURATION \in Nat \ {0}
    /\ MAX_REWARD_DURATION \in Nat
    /\ InitialSqrtPrices \subseteq SqrtMinPrice .. SqrtMaxPrice
    /\ LiquidityDeltas \subseteq Nat
    /\ AmountThresholds \subseteq Nat
    /\ SwapAmounts \subseteq Nat
    /\ MinimumAmountsOut \subseteq Nat
    /\ VestingParameterInputs \subseteq VestingParameters
    /\ CliffPoints \subseteq Nat
    /\ PermanentLockAmounts \subseteq Nat
    /\ SplitNumerators \subseteq SplitParameters
    /\ RewardDurations \subseteq Nat
    /\ FundingAmounts \subseteq Nat
    /\ MaxFeeClaims \subseteq Nat

VARIABLES
    clock,              \* Clock::get(), slot and timestamp
    pool,               \* the Pool account, without its rewards
    rewards,            \* Pool.reward_infos
    positions,          \* the open Position accounts
    vestings,           \* the live Vesting accounts
    vault,              \* balances of the token A and token B vault
    rewardVault,        \* balances of the reward vaults
    rewardVaultFrozen   \* which reward vaults their mint authority froze

vars == <<clock, pool, rewards, positions, vestings, vault, rewardVault, rewardVaultFrozen>>

PoolState ==
    [enabled : BOOLEAN, sqrt_price : Nat, liquidity : Nat, permanent_lock_liquidity : Nat,
     fee_per_liquidity : [Token -> Nat], protocol_fee : [Token -> Nat],
     partner_fee : [Token -> Nat], dynamic : DynamicFeeState, total_position : Int]

VestingState ==
    [position : PositionId, cliff_point : Nat, period_frequency : Nat,
     cliff_unlock_liquidity : Nat, liquidity_per_period : Nat, number_of_period : Nat,
     total_released_liquidity : Nat]

TypeOK ==
    /\ clock \in Nat
    /\ pool \in PoolState
    /\ rewards \in [RewardIndex -> RewardInfo]
    /\ DOMAIN positions \subseteq PositionId
    /\ positions \in [DOMAIN positions -> PositionState]
    /\ DOMAIN vestings \subseteq VestingId
    /\ vestings \in [DOMAIN vestings -> VestingState]
    /\ vault \in [Token -> Nat]
    /\ rewardVault \in [RewardIndex -> Nat]
    /\ rewardVaultFrozen \in [RewardIndex -> BOOLEAN]
-----------------------------------------------------------------------------
Put(f, x, value) == [y \in DOMAIN f \cup {x} |-> IF y = x THEN value ELSE f[y]]

Drop(f, x) == [y \in DOMAIN f \ {x} |-> f[y]]

Paid(amounts) == [t \in Token |-> vault[t] - amounts[t]]

Received(amounts) == [t \in Token |-> vault[t] + amounts[t]]

CanPay(amounts) == \A t \in Token : vault[t] >= amounts[t]

NoTokens == [t \in Token |-> 0]

(* PermissionlessActionAccess: positions are created, topped up, locked and  *)
(* split while the pool is enabled; liquidity can be removed from the        *)
(* activation point on, whatever the status.                                 *)
CanSwap(is_whitelisted_vault) ==
    /\ pool.enabled
    /\ clock >= IF is_whitelisted_vault THEN PreActivationPoint ELSE ActivationPoint

CanRemoveLiquidity == clock >= ActivationPoint

GetAmountsDown(liquidity_delta) ==
    [t \in Token |->
        IF t = "a" THEN GetDeltaAmountADown(pool.sqrt_price, SqrtMaxPrice, liquidity_delta)
                   ELSE GetDeltaAmountBDown(SqrtMinPrice, pool.sqrt_price, liquidity_delta)]

GetAmountsUp(sqrt_price, liquidity_delta) ==
    [t \in Token |->
        IF t = "a" THEN GetDeltaAmountAUp(sqrt_price, SqrtMaxPrice, liquidity_delta)
                   ELSE GetDeltaAmountBUp(SqrtMinPrice, sqrt_price, liquidity_delta)]
-----------------------------------------------------------------------------
(* What a pool's creation leaves in the vaults: the amounts, or, by           *)
(* initialize_customizable_pool, at least one unit of each token.            *)
InitialVaults(amounts) ==
    {amounts, [t \in Token |-> IF amounts[t] = 0 THEN 1 ELSE amounts[t]]}

(* initialize_pool: the creator's position receives the first liquidity.     *)
InitializePool(p, sqrt_price, liquidity) ==
    /\ liquidity > 0
    /\ clock = StartTime
    /\ pool = [enabled |-> TRUE, sqrt_price |-> sqrt_price, liquidity |-> liquidity,
               permanent_lock_liquidity |-> 0, fee_per_liquidity |-> NoTokens,
               protocol_fee |-> NoTokens, partner_fee |-> NoTokens,
               dynamic |-> InitialDynamicFeeState, total_position |-> 1]
    /\ rewards = [i \in RewardIndex |-> NoReward]
    /\ positions = [q \in {p} |-> NewPosition(liquidity)]
    /\ vestings = [v \in {} |-> NoTokens]
    /\ \E t \in Token : GetAmountsUp(sqrt_price, liquidity)[t] > 0
    /\ vault \in InitialVaults(GetAmountsUp(sqrt_price, liquidity))
    /\ rewardVault = [i \in RewardIndex |-> 0]
    /\ rewardVaultFrozen = [i \in RewardIndex |-> FALSE]

Init ==
    \E p \in PositionId, sqrt_price \in InitialSqrtPrices, liquidity \in LiquidityDeltas :
        InitializePool(p, sqrt_price, liquidity)

(* The cluster's clock.                                                      *)
Tick ==
    /\ clock' = clock + 1
    /\ UNCHANGED <<pool, rewards, positions, vestings, vault, rewardVault, rewardVaultFrozen>>

(* A mint's freeze authority, outside the program.                           *)
FreezeRewardVault(i) ==
    /\ rewardVaultFrozen' = [rewardVaultFrozen EXCEPT ![i] = ~@]
    /\ UNCHANGED <<clock, pool, rewards, positions, vestings, vault, rewardVault>>

SetPoolStatus ==
    /\ pool' = [pool EXCEPT !.enabled = ~@]
    /\ UNCHANGED <<clock, rewards, positions, vestings, vault, rewardVault, rewardVaultFrozen>>
-----------------------------------------------------------------------------
CreatePosition(p) ==
    /\ pool.enabled
    /\ p \notin DOMAIN positions
    /\ positions' = Put(positions, p, NewPosition(0))
    /\ pool' = [pool EXCEPT !.total_position = @ + 1]
    /\ UNCHANGED <<clock, rewards, vestings, vault, rewardVault, rewardVaultFrozen>>

(* Mutant: total_position is not reduced.                                    *)
ClosePosition_Uncounted(p) ==
    /\ p \in DOMAIN positions
    /\ IsEmpty(positions[p])
    /\ positions' = Drop(positions, p)
    /\ UNCHANGED <<clock, pool, rewards, vestings, vault, rewardVault, rewardVaultFrozen>>

ClosePosition(p) ==
    /\ p \in DOMAIN positions
    /\ IsEmpty(positions[p])
    /\ positions' = Drop(positions, p)
    /\ pool' = [pool EXCEPT !.total_position = @ - 1]
    /\ UNCHANGED <<clock, rewards, vestings, vault, rewardVault, rewardVaultFrozen>>

(* Pool::update_rewards and Position::update_rewards.  Without an            *)
(* initialized reward they leave everything as it is.                        *)
CanUpdateRewards ==
    \A i \in RewardIndex : CanUpdateReward(rewards[i], clock)

UpdatedRewards ==
    [i \in RewardIndex |-> UpdateReward(rewards[i], pool.liquidity, clock)]

(* The rewards are updated first, then the position against the new values.  *)
CanSettle(p) ==
    /\ CanUpdatePositionReward(positions[p], rewards')
    /\ CanUpdateFee(positions[p], pool.fee_per_liquidity)

Settled(p) ==
    UpdateFee(UpdatePositionReward(positions[p], rewards'), pool.fee_per_liquidity)

AddLiquidity(p, liquidity_delta, threshold) ==
    /\ p \in DOMAIN positions
    /\ liquidity_delta > 0
    /\ pool.enabled
    /\ CanUpdateRewards
    /\ rewards' = UpdatedRewards
    /\ CanSettle(p)
    /\ \E amounts \in {GetAmountsUp(pool.sqrt_price, liquidity_delta)} :
          /\ \E t \in Token : amounts[t] > 0
          /\ \A t \in Token : amounts[t] <= threshold[t]
          /\ vault' = Received(amounts)
    /\ positions' = [positions EXCEPT ![p] = AddLiquidityTo(Settled(p), liquidity_delta)]
    /\ pool' = [pool EXCEPT !.liquidity = @ + liquidity_delta]
    /\ UNCHANGED <<clock, vestings, rewardVault, rewardVaultFrozen>>

RemoveLiquidity(p, liquidity_delta, threshold) ==
    /\ p \in DOMAIN positions
    /\ CanRemoveLiquidity
    /\ liquidity_delta > 0
    /\ liquidity_delta <= positions[p].unlocked_liquidity
    /\ CanUpdateRewards
    /\ rewards' = UpdatedRewards
    /\ CanSettle(p)
    /\ pool.liquidity >= liquidity_delta
    /\ \E amounts \in {GetAmountsDown(liquidity_delta)} :
          /\ \E t \in Token : amounts[t] > 0
          /\ \A t \in Token : amounts[t] >= threshold[t]
          /\ CanPay(amounts)
          /\ vault' = Paid(amounts)
    /\ positions' = [positions EXCEPT ![p] =
                        RemoveUnlockedLiquidity(Settled(p), liquidity_delta)]
    /\ pool' = [pool EXCEPT !.liquidity = @ - liquidity_delta]
    /\ UNCHANGED <<clock, vestings, rewardVault, rewardVaultFrozen>>

ClaimPositionFee(p) ==
    /\ p \in DOMAIN positions
    /\ CanUpdateFee(positions[p], pool.fee_per_liquidity)
    /\ \E updated \in {UpdateFee(positions[p], pool.fee_per_liquidity)} :
          /\ CanPay(updated.fee_pending)
          /\ vault' = Paid(updated.fee_pending)
          /\ positions' = [positions EXCEPT ![p] = [updated EXCEPT !.fee_pending = NoTokens]]
    /\ UNCHANGED <<clock, pool, rewards, vestings, rewardVault, rewardVaultFrozen>>
-----------------------------------------------------------------------------
(* The dynamic fee divides by the reference price and subtracts its          *)
(* timestamp from the clock: a swap fails when it cannot.                    *)
VolatilityReferenceUsable ==
    DynamicFee.enabled =>
        /\ clock >= pool.dynamic.last_update_timestamp
        /\ UpdatePreSwap(pool.dynamic, pool.sqrt_price, clock).sqrt_price_reference > 0

(* Mutant: the fee per liquidity is set instead of accumulated.              *)
ApplySwapResult_NotAccumulating(dyn, result, a_for_b) ==
    LET t == FeeToken(a_for_b)
    IN  [pool EXCEPT
            !.sqrt_price = result.next_sqrt_price,
            !.fee_per_liquidity[t] = MulDivDown(result.lp_fee, LIQUIDITY_SCALE, pool.liquidity),
            !.protocol_fee[t] = @ + result.protocol_fee,
            !.partner_fee[t] = @ + result.partner_fee]

(* apply_swap_result after update_pre_swap (dyn); then the transfers.        *)
ApplySwapResult(dyn, result, a_for_b) ==
    LET t == FeeToken(a_for_b)
    IN  [pool EXCEPT
            !.sqrt_price = result.next_sqrt_price,
            !.fee_per_liquidity[t] = @ + MulDivDown(result.lp_fee, LIQUIDITY_SCALE, pool.liquidity),
            !.protocol_fee[t] = @ + result.protocol_fee,
            !.partner_fee[t] = @ + result.partner_fee,
            !.dynamic = UpdatePostSwap(dyn, pool.sqrt_price, result.next_sqrt_price, clock)]

SwapTransfers(amount_in, result, a_for_b) ==
    LET t_in   == IF a_for_b THEN "a" ELSE "b"
        paid_in  == [t \in Token |-> IF t = t_in THEN amount_in ELSE 0]
        paid_out == [t \in Token |-> (IF t # t_in THEN result.output_amount ELSE 0)
                                   + (IF t = FeeToken(a_for_b) THEN result.referral_fee ELSE 0)]
    IN  [t \in Token |-> vault[t] + paid_in[t] - paid_out[t]]

Swap(amount_in, a_for_b, has_referral, is_whitelisted_vault, minimum_amount_out) ==
    /\ CanSwap(is_whitelisted_vault)
    /\ amount_in > 0
    /\ pool.liquidity > 0
    /\ VolatilityReferenceUsable
    /\ \E dyn \in {UpdatePreSwap(pool.dynamic, pool.sqrt_price, clock)} :
       \E result \in {GetSwapResult(pool.sqrt_price, pool.liquidity, dyn, amount_in, a_for_b,
                                    has_referral, clock)} :
          /\ PriceAfterIsValid(result.next_sqrt_price, a_for_b)
          /\ result.output_amount >= minimum_amount_out
          /\ pool' = ApplySwapResult(dyn, result, a_for_b)
          /\ vault' = SwapTransfers(amount_in, result, a_for_b)
    /\ \A t \in Token : vault'[t] >= 0
    /\ UNCHANGED <<clock, rewards, positions, vestings, rewardVault, rewardVaultFrozen>>

ClaimProtocolFee(max_amount) ==
    LET claimed == [t \in Token |-> CapAt(pool.protocol_fee[t], max_amount[t])]
    IN  /\ CanPay(claimed)
        /\ pool' = [pool EXCEPT !.protocol_fee = [t \in Token |-> @[t] - claimed[t]]]
        /\ vault' = Paid(claimed)
        /\ UNCHANGED <<clock, rewards, positions, vestings, rewardVault, rewardVaultFrozen>>

ClaimPartnerFee(max_amount) ==
    LET claimed == [t \in Token |-> CapAt(pool.partner_fee[t], max_amount[t])]
    IN  /\ HasPartner
        /\ CanPay(claimed)
        /\ pool' = [pool EXCEPT !.partner_fee = [t \in Token |-> @[t] - claimed[t]]]
        /\ vault' = Paid(claimed)
        /\ UNCHANGED <<clock, rewards, positions, vestings, rewardVault, rewardVaultFrozen>>
-----------------------------------------------------------------------------
LockPosition(p, v, params, cliff_point) ==
    /\ p \in DOMAIN positions
    /\ v \notin DOMAIN vestings
    /\ pool.enabled
    /\ ValidVesting(params, cliff_point, clock)
    /\ positions[p].unlocked_liquidity >= GetTotalLockAmount(params)
    /\ vestings' = Put(vestings, v, NewVesting(p, cliff_point, params))
    /\ positions' = [positions EXCEPT ![p] = Lock(@, GetTotalLockAmount(params))]
    /\ UNCHANGED <<clock, pool, rewards, vault, rewardVault, rewardVaultFrozen>>

(* Anyone may refresh.  The handler loops over the locks it is given; each   *)
(* iteration reads and writes its own lock and adds to the position, so a    *)
(* call with several locks is the sequence of calls with one each.           *)
RefreshVesting(v) ==
    LET p        == vestings[v].position
        released == GetNewReleaseLiquidity(vestings[v], clock)
        updated  == AccumulateReleasedLiquidity(vestings[v], released)
    IN  /\ v \in DOMAIN vestings
        /\ p \in DOMAIN positions
        /\ released >= 0
        /\ released <= positions[p].vested_liquidity
        /\ positions' = [positions EXCEPT ![p] = ReleaseVestedLiquidity(@, released)]
        /\ vestings' = IF Done(updated) THEN Drop(vestings, v)
                                        ELSE [vestings EXCEPT ![v] = updated]
        /\ UNCHANGED <<clock, pool, rewards, vault, rewardVault, rewardVaultFrozen>>

PermanentLockPosition(p, amount) ==
    /\ p \in DOMAIN positions
    /\ pool.enabled
    /\ positions[p].unlocked_liquidity >= amount
    /\ positions' = [positions EXCEPT ![p] = PermanentLockLiquidity(@, amount)]
    /\ pool' = [pool EXCEPT !.permanent_lock_liquidity = @ + amount]
    /\ UNCHANGED <<clock, rewards, vestings, vault, rewardVault, rewardVaultFrozen>>

ValidSplit(numerators) ==
    \/ numerators.unlocked > 0
    \/ numerators.permanent > 0
    \/ \E t \in Token : numerators.fee[t] > 0
    \/ \E i \in RewardIndex : numerators.reward[i] > 0

(* Mutant: a position with vested liquidity may be split.                     *)
SplitPosition_DespiteVesting(first, second, numerators) ==
    /\ first \in DOMAIN positions
    /\ second \in DOMAIN positions
    /\ first # second
    /\ pool.enabled
    /\ ValidSplit(numerators)
    /\ CanUpdateRewards
    /\ rewards' = UpdatedRewards
    /\ CanSettle(first)
    /\ CanSettle(second)
    /\ \E giver \in {Settled(first)} :
       \E share \in {SplitShare(giver, numerators, rewards')} :
          positions' = [positions EXCEPT ![first] = TakeShare(giver, share),
                                         ![second] = GiveShare(Settled(second), share)]
    /\ UNCHANGED <<clock, pool, vestings, vault, rewardVault, rewardVaultFrozen>>

SplitPosition(first, second, numerators) ==
    /\ first \in DOMAIN positions
    /\ second \in DOMAIN positions
    /\ first # second
    /\ pool.enabled
    /\ ValidSplit(numerators)
    /\ positions[first].vested_liquidity = 0
    /\ CanUpdateRewards
    /\ rewards' = UpdatedRewards
    /\ CanSettle(first)
    /\ CanSettle(second)
    /\ \E giver \in {Settled(first)} :
       \E share \in {SplitShare(giver, numerators, rewards')} :
          positions' = [positions EXCEPT ![first] = TakeShare(giver, share),
                                         ![second] = GiveShare(Settled(second), share)]
    /\ UNCHANGED <<clock, pool, vestings, vault, rewardVault, rewardVaultFrozen>>
-----------------------------------------------------------------------------
InitializeReward(i, signer, funder, duration) ==
    /\ duration \in MIN_REWARD_DURATION .. MAX_REWARD_DURATION
    /\ ~rewards[i].initialized
    /\ HasAuthorityToEditReward(i, signer)
    /\ rewards' = [rewards EXCEPT ![i] = InitReward(@, funder, duration)]
    /\ UNCHANGED <<clock, pool, positions, vestings, vault, rewardVault, rewardVaultFrozen>>

(* Mutant: the rewards are not updated before the rate changes.              *)
FundReward_WithoutUpdate(i, signer, amount, carry_forward) ==
    /\ rewards[i].initialized
    /\ IsValidFunder(rewards[i], signer)
    /\ amount > 0
    /\ ~rewardVaultFrozen[i]
    /\ rewards' = [rewards EXCEPT ![i] = UpdateRateAfterFunding(@, clock, amount)]
    /\ rewardVault' = [rewardVault EXCEPT ![i] = @ + amount]
    /\ UNCHANGED <<clock, pool, positions, vestings, vault, rewardVaultFrozen>>

FundReward(i, signer, amount, carry_forward) ==
    /\ rewards[i].initialized
    /\ IsValidFunder(rewards[i], signer)
    /\ amount > 0
    /\ CanUpdateRewards
    /\ ~rewardVaultFrozen[i]
    /\ \E updated \in {UpdatedRewards} :
          /\ carry_forward \/ updated[i].cumulative_seconds_with_empty_liquidity_reward = 0
          /\ rewards' = [updated EXCEPT ![i] =
                IF carry_forward
                THEN UpdateRateAfterFunding(ResetEmptySeconds(@), clock,
                                            amount + IneligibleReward(@))
                ELSE UpdateRateAfterFunding(@, clock, amount)]
    /\ rewardVault' = [rewardVault EXCEPT ![i] = @ + amount]
    /\ UNCHANGED <<clock, pool, positions, vestings, vault, rewardVaultFrozen>>

(* From a frozen vault nothing is paid; the caller must accept to lose it.   *)
ClaimReward(p, i, skip_reward) ==
    /\ p \in DOMAIN positions
    /\ rewards[i].initialized
    /\ CanUpdateRewards
    /\ rewards' = UpdatedRewards
    /\ CanUpdatePositionReward(positions[p], rewards')
    /\ \E updated \in {UpdatePositionReward(positions[p], rewards')} :
       \E payout \in {IF rewardVaultFrozen[i] THEN 0 ELSE updated.reward_pending[i]} :
          /\ updated.reward_pending[i] > 0 /\ rewardVaultFrozen[i] => skip_reward
          /\ payout <= rewardVault[i]
          /\ positions' = [positions EXCEPT ![p] = [updated EXCEPT !.reward_pending[i] = 0]]
          /\ rewardVault' = [rewardVault EXCEPT ![i] = @ - payout]
    /\ UNCHANGED <<clock, pool, vestings, vault, rewardVaultFrozen>>

WithdrawIneligibleReward(i, signer) ==
    /\ rewards[i].initialized
    /\ IsValidFunder(rewards[i], signer)
    /\ clock > rewards[i].reward_duration_end
    /\ CanUpdateRewards
    /\ \E updated \in {UpdatedRewards} :
       \E ineligible \in {IneligibleReward(updated[i])} :
          /\ ineligible > 0 => ~rewardVaultFrozen[i] /\ ineligible <= rewardVault[i]
          /\ rewards' = [updated EXCEPT ![i] = ResetEmptySeconds(@)]
          /\ rewardVault' = [rewardVault EXCEPT ![i] = @ - ineligible]
    /\ UNCHANGED <<clock, pool, positions, vestings, vault, rewardVaultFrozen>>

UpdateRewardDuration(i, signer, duration) ==
    /\ duration \in MIN_REWARD_DURATION .. MAX_REWARD_DURATION
    /\ rewards[i].initialized
    /\ rewards[i].reward_duration # duration
    /\ rewards[i].reward_duration_end < clock
    /\ HasAuthorityToEditReward(i, signer)
    /\ rewards' = [rewards EXCEPT ![i].reward_duration = duration]
    /\ UNCHANGED <<clock, pool, positions, vestings, vault, rewardVault, rewardVaultFrozen>>

UpdateRewardFunder(i, signer, funder) ==
    /\ rewards[i].initialized
    /\ rewards[i].funder # funder
    /\ HasAuthorityToEditReward(i, signer)
    /\ rewards' = [rewards EXCEPT ![i].funder = funder]
    /\ UNCHANGED <<clock, pool, positions, vestings, vault, rewardVault, rewardVaultFrozen>>
-----------------------------------------------------------------------------
PositionInstruction ==
    \E p \in PositionId :
        \/ CreatePosition(p)
        \/ ClosePosition(p)
        \/ ClaimPositionFee(p)
        \/ \E delta \in LiquidityDeltas, threshold \in [Token -> AmountThresholds] :
              AddLiquidity(p, delta, threshold)
        \/ \E delta \in LiquidityDeltas, threshold \in [Token -> AmountThresholds] :
              RemoveLiquidity(p, delta, threshold)
        \/ \E threshold \in [Token -> AmountThresholds] :
              /\ p \in DOMAIN positions
              /\ RemoveLiquidity(p, positions[p].unlocked_liquidity, threshold)

LockInstruction ==
    \/ \E p \in PositionId, v \in VestingId, params \in VestingParameterInputs,
          cliff_point \in CliffPoints \cup {clock} : LockPosition(p, v, params, cliff_point)
    \/ \E v \in VestingId : RefreshVesting(v)
    \/ \E p \in PositionId, amount \in PermanentLockAmounts : PermanentLockPosition(p, amount)
    \/ \E first, second \in PositionId, numerators \in SplitNumerators :
          SplitPosition(first, second, numerators)

TradeInstruction ==
    \/ \E amount_in \in SwapAmounts, a_for_b, has_referral, is_whitelisted_vault \in BOOLEAN,
          minimum_amount_out \in MinimumAmountsOut :
          Swap(amount_in, a_for_b, has_referral, is_whitelisted_vault, minimum_amount_out)
    \/ \E max_amount \in [Token -> MaxFeeClaims] : ClaimProtocolFee(max_amount)
    \/ \E max_amount \in [Token -> MaxFeeClaims] : ClaimPartnerFee(max_amount)

RewardInstruction ==
    \E i \in RewardIndex :
        \/ \E signer, funder \in Key, duration \in RewardDurations :
              InitializeReward(i, signer, funder, duration)
        \/ \E signer \in Key, amount \in FundingAmounts, carry_forward \in BOOLEAN :
              FundReward(i, signer, amount, carry_forward)
        \/ \E p \in PositionId, skip_reward \in BOOLEAN : ClaimReward(p, i, skip_reward)
        \/ \E signer \in Key : WithdrawIneligibleReward(i, signer)
        \/ \E signer \in Key, duration \in RewardDurations :
              UpdateRewardDuration(i, signer, duration)
        \/ \E signer, funder \in Key : UpdateRewardFunder(i, signer, funder)
        \/ FreezeRewardVault(i)

Instruction ==
    \/ PositionInstruction
    \/ LockInstruction
    \/ TradeInstruction
    \/ RewardInstruction
    \/ SetPoolStatus

Next == Tick \/ Instruction

Spec == Init /\ [][Next]_vars

(* The cluster's clock goes on, and somebody refreshes each lock that can be *)
(* refreshed: refresh_vesting needs no signature of the owner or of anybody  *)
(* else, and no status of the pool stops it.  Nobody else has to act.        *)
Fairness ==
    /\ WF_vars(Tick)
    /\ \A v \in VestingId : WF_vars(RefreshVesting(v))

FairSpec == Spec /\ Fairness
-----------------------------------------------------------------------------
(* The pool's liquidity is exactly what its open positions hold together,    *)
(* unlocked, vested and permanently locked, through every add, remove, lock, *)
(* release, split and close.                                                 *)
LiquidityIsOwned ==
    pool.liquidity = SumFunction([p \in DOMAIN positions |-> GetTotalLiquidity(positions[p])])

(* The pool's count of permanently locked liquidity is what positions hold   *)
(* permanently locked: splits move it, nothing else takes it away.           *)
PermanentLockIsOwned ==
    pool.permanent_lock_liquidity =
        SumFunction([p \in DOMAIN positions |-> positions[p].permanent_locked_liquidity])

(* The vested liquidity of a position is exactly what its live locks have    *)
(* not released, so refreshing the locks in any order and any number of      *)
(* times releases all of it and never more; a lock outlives its position     *)
(* never.                                                                    *)
LocksBackVestedLiquidity ==
    /\ \A v \in DOMAIN vestings : vestings[v].position \in DOMAIN positions
    /\ \A p \in DOMAIN positions :
          positions[p].vested_liquidity =
              SumFunction([v \in {w \in DOMAIN vestings : vestings[w].position = p} |->
                              GetTotalLockAmount(vestings[v])
                                - vestings[v].total_released_liquidity])

(* No lock has released more than its schedule allows at the current time,   *)
(* nor ever more than was locked: refresh_vesting cannot run ahead.          *)
ReleasesFollowSchedule ==
    \A v \in DOMAIN vestings :
        /\ vestings[v].total_released_liquidity <= GetMaxUnlockedLiquidity(vestings[v], clock)
        /\ GetMaxUnlockedLiquidity(vestings[v], clock) <= GetTotalLockAmount(vestings[v])

(* Both token vaults hold at least what could be claimed from them at once:  *)
(* the tokens of all liquidity at the current price, all LP fees, the        *)
(* protocol's and the partner's fees.  Every rounding goes the pool's way.   *)
VaultsCoverClaims ==
    \A t \in Token :
        vault[t] >=
            SumFunction([p \in DOMAIN positions |->
                GetAmountsDown(GetTotalLiquidity(positions[p]))[t]
                + UpdateFee(positions[p], pool.fee_per_liquidity).fee_pending[t]])
            + pool.protocol_fee[t] + pool.partner_fee[t]

(* Each reward vault holds at least the rewards accrued to positions, the    *)
(* ineligible reward and what the running campaign still distributes: the    *)
(* funder's withdrawal or a new funding never takes what LPs earned.         *)
RewardVaultsCoverClaims ==
    \A i \in RewardIndex :
        rewardVault[i] >=
            SumFunction([p \in DOMAIN positions |->
                UpdatePositionReward(positions[p], UpdatedRewards).reward_pending[i]])
            + IneligibleReward(UpdatedRewards[i])
            + MulDivDown(rewards[i].reward_rate,
                         rewards[i].reward_duration_end
                            - LastTimeRewardApplicable(rewards[i], clock),
                         REWARD_RATE_SCALE)

(* No checkpoint runs ahead of its accumulator and no reward was updated     *)
(* past its end: the checked subtractions of update_fee,                     *)
(* update_position_reward and get_seconds_elapsed never fail, for anyone.    *)
CheckpointsBehind ==
    /\ \A i \in RewardIndex :
          /\ rewards[i].last_update_time <= rewards[i].reward_duration_end
          /\ rewards[i].last_update_time <= clock
    /\ \A p \in DOMAIN positions :
          /\ \A t \in Token : positions[p].fee_checkpoint[t] <= pool.fee_per_liquidity[t]
          /\ \A i \in RewardIndex :
                positions[p].reward_checkpoint[i] <= rewards[i].reward_per_token_stored

(* The price never leaves the range the liquidity was computed for, which    *)
(* get_amounts_for_modify_liquidity relies on for its unsigned subtractions. *)
PriceInRange == pool.sqrt_price \in SqrtMinPrice .. SqrtMaxPrice

(* metrics.total_position counts the open positions.                         *)
PositionCountIsExact == pool.total_position = Cardinality(DOMAIN positions)

(* Whatever other users, funders and admins did, enabled or disabled, from   *)
(* the activation point on an owner can take out all unlocked liquidity      *)
(* that is worth a token: no overflow check, reward update or empty vault    *)
(* stands in the way.                                                        *)
UnlockedLiquidityIsWithdrawable ==
    \A p \in DOMAIN positions :
        LET unlocked == positions[p].unlocked_liquidity
        IN  clock >= ActivationPoint /\ (\E t \in Token : GetAmountsDown(unlocked)[t] > 0) =>
                ENABLED RemoveLiquidity(p, unlocked, NoTokens)

ResultOf(sqrt_price, dyn, amount_in, a_for_b, has_referral) ==
    GetSwapResult(sqrt_price, pool.liquidity, dyn, amount_in, a_for_b, has_referral, clock)

(* A quote (get_quote of rust-sdk), which skips update_pre_swap, gives what  *)
(* the swap in the same state gives, however stale the volatility references *)
(* are: the fee of a swap depends on the accumulator alone.                  *)
QuoteMatchesSwap ==
    pool.liquidity > 0 =>
        \A amount_in \in SwapAmounts, a_for_b, has_referral \in BOOLEAN :
            ResultOf(pool.sqrt_price, pool.dynamic, amount_in, a_for_b, has_referral)
            = ResultOf(pool.sqrt_price, UpdatePreSwap(pool.dynamic, pool.sqrt_price, clock),
                       amount_in, a_for_b, has_referral)

OutputBack(first, dyn, a_for_b) ==
    ResultOf(first.next_sqrt_price, dyn, first.output_amount, ~a_for_b, FALSE).output_amount

(* Swapping there and back at once never returns more than was put in: every *)
(* rounding of the curve, in both directions, goes against the trader.       *)
RoundTripNeverProfits ==
    pool.liquidity > 0 =>
        \A amount_in \in SwapAmounts, a_for_b \in BOOLEAN :
            OutputBack(ResultOf(pool.sqrt_price, pool.dynamic, amount_in, a_for_b, FALSE),
                       pool.dynamic, a_for_b) <= amount_in

ClaimableFees(t) ==
    SumFunction([p \in DOMAIN positions |->
        UpdateFee(positions[p], pool.fee_per_liquidity).fee_pending[t]])

(* LP fees are conserved: a step on positions that leaves the pool as it is  *)
(* (claim_position_fee, split_position, locks) changes what LPs may claim    *)
(* together only by what it pays out; any other step, whoever takes it,      *)
(* never takes earned fees away.                                             *)
EarnedFeesAreKept ==
    [][\A t \in Token :
          IF positions' # positions /\ pool' = pool
          THEN ClaimableFees(t)' - ClaimableFees(t) = vault'[t] - vault[t]
          ELSE ClaimableFees(t)' >= ClaimableFees(t)]_vars

EarnedReward(p, i) ==
    IF p \in DOMAIN positions
    THEN UpdatePositionReward(positions[p], UpdatedRewards).reward_pending[i] ELSE 0

(* What a position has earned of a reward by now, settled or not, it keeps:  *)
(* no funding, withdrawal, change of duration, deposit of somebody else or   *)
(* close takes any of it.  What it loses its vault pays out, or a split      *)
(* moves to another position; only a claim from a frozen vault, which its    *)
(* owner has to ask for with skip_reward, gives it up.                       *)
EarnedRewardsAreKept ==
    [][\A p \in PositionId, i \in RewardIndex :
          LET loss == EarnedReward(p, i) - EarnedReward(p, i)'
          IN  \/ loss <= 0
              \/ loss = rewardVault[i] - rewardVault'[i]
              \/ loss = EarnedReward(p, i) /\ rewardVaultFrozen[i]
              \/ \E q \in PositionId \ {p} : loss = EarnedReward(q, i)' - EarnedReward(q, i)]_vars
-----------------------------------------------------------------------------
LiquidityOf(p) == IF p \in DOMAIN positions THEN positions[p] ELSE NewPosition(0)

Free == [p \in PositionId |-> LiquidityOf(p).unlocked_liquidity]

Vested == [p \in PositionId |-> LiquidityOf(p).vested_liquidity]

Permanent == [p \in PositionId |-> LiquidityOf(p).permanent_locked_liquidity]

Ledger == INSTANCE LiquidityLedger WITH
            open <- DOMAIN positions, free <- Free, vested <- Vested, permanent <- Permanent,
            total <- pool.liquidity, locked <- pool.permanent_lock_liquidity

(* The program implements the liquidity ledger: swaps, claims, rewards and   *)
(* admins never touch liquidity, a permanent lock is permanent, and no       *)
(* sequence of locks, releases and splits frees or loses any.                *)
ImplementsLedger == Ledger!LedgerSpec
-----------------------------------------------------------------------------
(* Every lock ends: whatever its schedule, whenever it is refreshed, and     *)
(* whatever admins do to the pool meanwhile, a vesting lock releases all its *)
(* liquidity and is closed.                                                  *)
EveryLockIsReleased ==
    \A v \in VestingId : v \in DOMAIN vestings ~> v \notin DOMAIN vestings
=============================================================================
