# A verification of the cp-amm and lending-pool programs

TLA+ modules, model-checking runs and machine-checked proofs for the two Solana
programs of this repository:

* **cp-amm** (`src/programs/cp-amm`): a constant-product AMM with a price range per
  pool, liquidity positions, vesting and permanent locks, trading fees with a
  scheduler and a volatility part, and farming rewards;
* **lending-pool** (`src/programs/lending-pool`): shorting token A of an AMM pool
  against token B collateral, by a CPI to `cp_amm::swap`.

An instruction is one transaction: it takes effect whole or not at all. A failed
`require!`, checked subtraction or token transfer reverts it, so in the models an
instruction is one action and every failing check is a guard. What is hard in this
code is therefore not a data race inside a handler. It is the *order* of the
instructions of owners, traders, funders, liquidators and admins who share one pool
and one pair of vaults, the clock that moves between them, state that is settled
lazily (fee and reward checkpoints, locks, volatility references), and integer
rounding in many places, all of which must favour the pool.

## 1. Inventory

| component | source | state | operations | correct when |
|---|---|---|---|---|
| Curve and fixed-point math | `curve.rs`, `math/` | none | amounts for a liquidity and a price move, next price for an input, multiply-divide with a rounding | every rounding favours the pool |
| Trading fees | `state/fee.rs`, `math/fee_math.rs`, `params/fee_parameters.rs` | fee parameters; volatility accumulator, its reference, reference price, last update | base fee of a period, variable fee, split between LPs, protocol, partner, referrer | a fee is within its cap, nothing is lost in a split, the volatility state can always be updated |
| Swap pricing | `state/pool.rs` (`get_swap_result`) | none | price an exact-in swap | the price stays in range and moves with the trade |
| Positions | `state/position.rs`, `ix_*position*.rs`, `ix_*liquidity.rs` | unlocked, vested, permanently locked liquidity; checkpoints; pending fees and rewards | create, close, add, remove, claim fee, split | liquidity and fees are conserved, owners can leave |
| Vesting and permanent locks | `state/vesting.rs`, `ix_lock_position.rs`, `ix_refresh_vesting.rs`, `ix_permanent_lock_position.rs` | schedule and released amount of each lock | lock, refresh, lock for ever | nothing released early, twice or too much |
| Farming rewards | `state/pool.rs` (`RewardInfo`), `ix_*reward*.rs` | rate, end, last update, reward per liquidity, seconds without liquidity | initialize, fund, claim, withdraw ineligible, change duration or funder | the vault covers what was earned |
| Pool and swap instruction | `state/pool.rs`, `ix_swap.rs`, `ix_claim_p*_fee.rs`, `ix_set_pool_status.rs`, `pool_action_access/` | price, liquidity, accumulated fees, status, position count | swap, claim protocol and partner fees, enable and disable | vaults cover all claims |
| Pool creation and configs | `instructions/initialize_pool/`, `state/config.rs`, `params/activation.rs` | configs, pools with activation point and vault | create and close configs, create pools in three ways | every pool is sound, one per pair and config, and opens in the end |
| Admin accounts | `state/claim_fee_operator.rs`, `state/token_badge.rs`, `admin/auth.rs` | one account each | create, close | badges admit exactly the mints they name |
| Token-2022 handling | `utils/token.rs` | the mint's fee of the epoch, vault balance | transfers, transfer fees and their inverse, supported mints | the vault holds what the pool booked |
| Lending pool | `programs/lending-pool/src` | counters, parameters; one short position per user; two vaults | initialize, open, close, liquidate | lenders get their tokens back, positions are counted and settled once |
| Rust SDK | `rust-sdk/src/quote.rs` | none | quote a swap | a quote is what the swap gives |
| Simulations and tests, events, errors | `simulations/`, `tests/`, `event.rs`, `error.rs` | none | | |

Interactions. All cp-amm instructions read and write one `Pool` account and its
vaults; `swap` raises `fee_per_liquidity`, which each `Position` meets at its own later
time through its checkpoint. `Pool::update_rewards` runs before every instruction that
reads liquidity or rewards, so that a reward is spread over the liquidity of its time.
`Vesting` accounts point to a position, and `refresh_vesting` may be called by anybody.
The mint of a pool's token may charge a fee on every transfer, which its authority changes
from one epoch to another; the pool computes it in each instruction anew. Static and dynamic
configs are read only when a pool is created; a config may be closed, and its index used
again, while its pools live on.
lending-pool calls `cp_amm::swap` with its own vaults as the trader's accounts and reads
the AMM's `sqrt_price` from the account's bytes; it shares no other state with it.

The hazards of this code, each at its line and with the properties that would catch it,
are listed in `PROJECT.json`.

## 2. Modules

```
Curve --+--> FeeParameters --+--> PoolFees -> PoolSwap --+--> CpAmm (with Position, Vesting,
        |                    |                           |           Reward) ..> LiquidityLedger
        |                    |                           +--> LendingPool ..> LoanBook
        |                    +--> PoolFactory
        +--> TokenTransfer

MC modules: MCCpAmm, MCCpAmmLive, MCLendingPool, MCFeeParameters, MCTokenTransfer, MCPoolFactory

OperatorTheorems --+--> FeeSchedule_proofs
                   +--> PoolSwap_proofs --+--> CpAmm_proofs -> CpAmmVaults_proofs
                                          +--> LendingPool_proofs
TokenTransfer_proofs    PoolFactory_proofs
```

A dotted arrow leads from a specification to the abstract one that it implements. `Curve`,
`FeeParameters`, `PoolFees`, `PoolSwap`, `Position`, `Vesting` and `Reward` are the pure parts:
operators on numbers and records, named after the functions they stand for. `CpAmm`,
`LendingPool`, `TokenTransfer` and `PoolFactory` are the state machines.

**Curve.** Rust's Q64.64 numbers become naturals with the scale as a CONSTANT (`ONE_Q`).
`MulDivDown` and `MulDivUp` stand for `mul_div_u256`, `mul_shr`, `shl_div` and their
casts; the two roundings of a function are two operators. The rounding directions are the
code's, and the scales of the runs are small enough that they matter in nearly every step.

**FeeParameters.** The base fee: its parameters, what `BaseFeeParameters::validate` admits,
and the linear and exponential schedulers. `Pow` is exponentiation by squaring, truncating at
each step, written as a recursive function; its callers pass a base below one, so the
inversions of `pow` never happen.

**PoolFees.** The dynamic fee (`UpdatePreSwap`, `UpdatePostSwap`, `GetVariableFee`) and the
split of a fee. What the fee code relies on is assumed of the CONSTANTS (`UsableFees` in
FeeParameters; `UsablePriceRange` in Curve is its counterpart for PoolSwap); it is proved of
every pool that PoolFactory creates (`EveryPoolIsUsable`).

**PoolSwap.** `get_swap_result`, with the fee on the input or on the output.

**Position, Vesting, Reward.** The records and the operations on them. A checked
subtraction has a `Can...` operator, which the action uses as a guard.

**CpAmm.** Variables: `clock`, `pool`, `rewards` (`Pool.reward_infos`), `positions`,
`vestings`, `vault`, `rewardVault`, `rewardVaultFrozen`. The initial states are what
`initialize_pool` leaves behind, or `initialize_customizable_pool`, which takes at least one
unit of each token even when the price is at an end of its range. Actions:

| action | instruction |
|---|---|
| `CreatePosition`, `ClosePosition` | `create_position`, `close_position` |
| `AddLiquidity`, `RemoveLiquidity` | `add_liquidity`; `remove_liquidity` and `remove_all_liquidity` |
| `ClaimPositionFee` | `claim_position_fee` |
| `Swap` | `swap`, by anyone and by the whitelisted vault, with and without referral |
| `ClaimProtocolFee`, `ClaimPartnerFee` | `claim_protocol_fee`, `claim_partner_fee` |
| `LockPosition`, `RefreshVesting`, `PermanentLockPosition` | the same |
| `SplitPosition` | `split_position2`; `split_position` is a call of it |
| `InitializeReward`, `FundReward`, `ClaimReward`, `WithdrawIneligibleReward`, `UpdateRewardDuration`, `UpdateRewardFunder` | the same |
| `SetPoolStatus` | `set_pool_status` |
| `Tick`, `FreezeRewardVault` | the cluster's clock; a mint's freeze authority (external) |

**LendingPool.** Variables: `amm` (price and status of the AMM pool), `lendingPool`,
`shorts`, `vault`, `wallet`, and two history variables that no account keeps: `deposited`, the
lenders' transfers, and `quoted`, the AMM price each user saw when opening. Actions: `InitializeLendingPool`, `OpenShort`,
`CloseShort`, `Liquidate`, each with its CPI swap; `DepositTokenA`, a plain token transfer,
because the program has no deposit instruction; `AmmTrade` and `AmmSetPoolStatus`, the
other users and the admin of the AMM. It uses PoolSwap for the price of a swap, so both
programs share one definition of it.

**TokenTransfer.** One mint with a transfer fee and one vault of a pool. Variables: `epoch`,
`mint` (the older and the newer fee and the epoch from which the newer holds), `vault`,
`booked` (what the pool counts as received and not paid). The token program's fee, its
inverse and `SetTransferFee` are external, modelled from their use. The actions are the four
shapes in which the instructions move tokens: `PullExactly` (add liquidity, create a pool),
`PullAtLeastOne` (create a customizable pool), `PullSent` (swap, fund a reward) and `PayOut`
(remove liquidity, swap output, claims).

**PoolFactory.** Variables: `clock` (the slot and the timestamp, independent of each other),
`configs`, `badges`, `operators`, `pools`. One action per instruction: `CreateStaticConfig`,
`CreateDynamicConfig`, `CloseConfig`, `CreateTokenBadge`, `CloseTokenBadge`,
`CreateClaimFeeOperator`, `CloseClaimFeeOperator`, `InitializePool`,
`InitializeCustomizablePool`, `InitializePoolWithDynamicConfig`, and `AdvanceClock`. A pool's
address is the tuple of its seeds, mints are numbers because their bytes are compared, and an
account exists at most once per address.

**LoanBook, LiquidityLedger.** What the two programs promise, without prices, fees, clocks,
collateral or schedules. LoanBook has the token A at hand (`cash`), the debt of each user and
whether it stands; a step supplies, lends, or settles a debt with at least what was borrowed.
LiquidityLedger has the free, vested and permanently locked liquidity of each position, the
total and the permanent total; a step opens or closes an empty position, adds or removes free
liquidity together with the total, shifts liquidity between free and vested, makes free
liquidity permanent, or moves free and permanent liquidity from a position without vested
liquidity to another. `CpAmm!Ledger` and `LendingPool!Loans` are their instances under the
refinement mappings, and `ImplementsLedger` and `ImplementsLoanBook` the properties.

Operators named `X_Something` next to an operator `X` and marked as mutants are variants of
`X` with a plausible mistake. No specification uses them: they document which mistake each
property catches.

### Abstractions

* In CpAmm one clock stands for the slot and for the timestamp; a pool uses one of them as its
  activation point, and neither runs backwards.
* In CpAmm amounts are in a vault's net terms: a token-2022 transfer fee is taken between the
  sender and the vault and does not change what the program computes from the net amount.
  TokenTransfer is where this is justified: `VaultHoldsBooked` and `InverseFeeIsExact`.
* PoolFactory keeps the initial liquidity of a pool; the transfers of its creation are in
  TokenTransfer and its first position in CpAmm. The percentages that config and pool add to
  the fee parameters are constants of the program.
* The holder of a position's NFT is the one who calls: signatures are not modelled, except
  those of the reward funder, the pool creator and the admins, which the reward actions
  check.
* Overflow of u64, u128 and u256 additions and casts is a revert and left out;
  subtractions are guards wherever the code checks them.
* Pool metrics are left out except `total_position`.
* `refresh_vesting` with several locks is the sequence of calls with one each.
* `partner_fee_percent` is 0 in the shipped constants and a parameter here.
* In LendingPool the AMM has constant liquidity and a flat fee, and its vaults cover its
  swaps (which is what `VaultsCoverClaims` says of CpAmm); the temporary token account of a
  position is empty between instructions.

## 3. Runs

| run | instance | checks |
|---|---|---|
| `swap` | 2 positions, both fee tokens, even split, from the middle and from the end of the price range, 6 instructions, 1 tick; 386 thousand states | `TypeOK`, `VaultsCoverClaims`, `CheckpointsBehind`, `PriceInRange`, `UnlockedLiquidityIsWithdrawable`, `EarnedFeesAreKept` |
| `lock` | 2 positions, 2 locks of two shapes, 5 instructions until time 3 besides any number of refreshes, the clock past the end of every lock; 425 thousand states | `LiquidityIsOwned`, `PermanentLockIsOwned`, `LocksBackVestedLiquidity`, `ReleasesFollowSchedule`, `PositionCountIsExact`, `ImplementsLedger`, `EveryLockIsReleased` |
| `reward` | 1 reward, positions that come, go and split, 7 instructions, 4 ticks; 887 thousand states | `RewardVaultsCoverClaims`, `CheckpointsBehind`, `UnlockedLiquidityIsWithdrawable`, `EarnedRewardsAreKept` |
| `dynamic` | fees in token B, decreasing base fee, volatility fee, activation at time 2, 4 swaps, 5 ticks | `VolatilityReferenceUsable`, `QuoteMatchesSwap`, `RoundTripNeverProfits` |
| `lending` | 2 users, 3 trades by others, deposits up to 30; 110 thousand states | `LendingTypeOK`, `ActivePositionsAreCounted`, `BorrowedIsOwed`, `PrincipalIsKept`, `NoLiquidationWithoutPriceRise`, `SettledIsFinal`, `ImplementsLoanBook` |
| `fee_schedule` | every admitted base fee with up to 7 periods, from before activation to past the last period | `FeeStaysInBounds`, `PowTracksPower`, `FeeNeverRises` |
| `transfer` | rates 0, 10, 30, 90 and 100 percent with three maximum fees, changed in every epoch | `VaultHoldsBooked`, `InverseFeeIsExact`, `ChargesTheLeast` |
| `factory` | 2 keys, 4 mints, 4 instructions until point 1 of either clock, both clocks past every activation point; 230 thousand states | `PoolsAreSound`, `OnePoolPerPair`, `VaultWindowIsAhead`, `EveryPoolIsActivated` |

What they show, in short: both vaults always hold what all owners, the protocol and the
partner could claim together; a reward vault also covers the ineligible part and the rest
of the running campaign, and what a position has earned of it by now, updated or not, no
instruction of anybody else takes away; no sequence of other people's instructions can block a removal of
unlocked liquidity that is worth a token; no lock runs ahead of its schedule; a quote, which
skips `update_pre_swap`, is nevertheless exact, because the fee depends on the accumulator
and `update_references` leaves it alone; the lenders' token A comes back at every AMM price.
A short that its collateral covers is not liquidated because the price returns to where it was
before the short's own sale: `open_short` reads the entry price before the swap, and the depth
of the AMM in `lending` is such that reading it after the swap would make it liquidatable.
The refinements say that whatever an instruction does besides, to liquidity and to loans it
does one thing the ledger allows. `pow` loses at most one unit in the last place per period and
never gains, so the two periods that `validate` looks at bound all the others. The inverse of a
transfer fee is exact for every rate and cap, so the error for the other case, which the code
"believes should never happen", never does.

Why the bounds are enough. Two positions are needed for splits and for one owner acting
between two steps of another; a third would be another bystander. The number of
instructions is chosen so that the longest story of each run fits: swap, add, swap, split,
claim, remove; two locks, a split, a removal and a close with refreshes before, in and after
their periods;
initialize, fund, leave, come back, fund with carry forward, claim, withdraw. Scales and
prices are such that divisions have remainders. The bounds are `MaxInstructions`,
`MaxClock` (MCCpAmm) and `MaxDeposited`, `MaxTrades` (MCLendingPool); when they are
exhausted the instance stutters, so deadlock is checked. Symmetry permutes positions (in
`swap` and `reward`) and users, which no definition tells apart; runs with a liveness property
use none.

`MCCpAmmLive`, the instance of `lock`, lets other instructions happen until `LastInstruction`
and the clock run past the end of every lock made until then (`ClockOutlivesLocks` is checked),
because a lock that outlives the instance would not be released in it. `MaxEpoch` and
`MaxVault` bound `transfer`; a fee that is set takes two epochs to be in force, so three epochs
show both sides of a change. In `factory` pools are created until `LastCreation` and the clocks
run on; four instructions are enough to create a config, a pool from it, close the config and
create it again differently, with a badge or a second pool in between.

Fairness. Two runs assume it. `factory` assumes that slots and seconds go on passing
(weak fairness of each clock by itself) and nothing of any caller: a pool is activated by time
alone. `lock` assumes that time passes and that each lock is refreshed when it can be,
again and again. `refresh_vesting` takes no signature of the owner and checks no pool status:
anybody can call it, so the owner, who gains by it, can at all times, and no other instruction
disables it for ever. No other instruction is assumed to happen. Elsewhere "withdrawable" and
"usable" say that an instruction is possible now, which is stronger than that it happens
eventually under an assumption about callers.

### Where the code and its documentation disagree

Four runs check one property each that `src/README.md` claims of lending-pool and that the
code does not keep; each gives a short behaviour that shows it.

| run | claim | code |
|---|---|---|
| `lending_min_ratio` | "150% minimum collateralization" (line 18) | `open_short` never reads `min_collateral_ratio` |
| `lending_close_pnl` | "Return collateral ± PnL to user" (line 54) | `close_short.rs:136` returns collateral minus `max_sol_in`; the proceeds of the sale stay in the vault and `calculate_pnl` has no caller |
| `lending_solvency` | "Protects pool solvency" (line 169) | `liquidate.rs:131` swaps the caller's `max_sol_in` out of the shared vault, unbounded by the position |
| `lending_threshold` | "Liquidation occurs below 120% collateral ratio" (line 229) | `state.rs:169` compares token B with an amount of token A scaled by a ratio of square-root prices |

Two more disagreements are plain from single lines and need no run. `liquidate.rs:152` pays a
constant 1000 where `src/README.md:168` says "Earn 5% bonus on successful liquidation". And
`initialize_pool` links a pool to the alpha vault of its static config without
`validate_quote_token`, which the other two instructions call because "if B is not whitelisted
quote token, then pool shouldn't be linked with an alpha-vault"
(`ix_initialize_customizable_pool.rs:411`).

## 4. Proofs

The proofs hold for every value of the constants that satisfies the named assumptions
(`FeeScaleAssumption`, `FeeAssumption`, `PriceRangeAssumption`, `CpAmmAssumption`,
`LendingAssumption`, `UserAssumption`, `TransferAssumption`, `FactoryAssumption`,
`ScheduleBounds` and those of Curve, Position, Vesting and Reward): any scale, price range,
fee schedule, number of positions, locks, rewards and users, and any instruction arguments.
The assumptions say what the code's `validate` functions and constants guarantee, and those
on a pool's fees and price range are theorems about PoolFactory (`EveryPoolIsUsable`);
`ScheduleBounds` says only that the bounds of the `fee_schedule` instance are natural
numbers. One comes from outside: with a dynamic fee the pool is created no earlier than
`filter_period` after time zero, which is true of Unix time.

### Sums and powers

**OperatorTheorems** has what the other proofs need of the operators. None of it uses the
induction theorems of the library, which take an operator as a parameter. Induction is over
a *set* instead: the set of numbers, or of finite subsets, at which a claim fails has a
smallest element if it is not empty, and the step refutes that one.

* Sums (`SumFunctionOnSet` and `SumFunction` of the community modules, which fold over a set
  in an arbitrary order): a sum does not depend on the order, it is additive, monotone and
  scales; changing, adding or dropping one summand changes it by that summand, moving an
  amount between two does not change it.
* Multiply-divide: types, the two bounds of each rounding, monotonicity, and
  `MulDivDownCovered` and `MulDivUpCovers`, which turn a rounded quotient into an inequality
  between products.
* The power of `pow`. The value of a power by squaring is a product over the bits of the
  exponent with a truncation after each factor, so that it falls with the exponent is not
  evident: going from 2^k - 1 to 2^k replaces k factors by one. The argument follows the carry
  of an increment. While the carry runs (`Carrying`) the larger exponent has multiplied nothing
  and the product of the smaller one is still at least the next square; where it stops the larger
  one takes that square, and from there (`Carried`) the bits are equal and truncated
  multiplication is monotone. `PowFallsByOne` and
  `PowFalls` follow for a base of at most one, at every scale and number of bits.
* `BaseFeeInBounds`: with it, for every base fee that `BaseFeeParameters::validate` admits and
  for both schedulers, the fee of every moment is between that of the last period and the
  cliff fee, and so within the program's limits. `validate` looks at these two periods only.
  Everything above rests on this theorem and assumes nothing of the schedule.

**FeeSchedule_proofs** states it of the schedule while the clock runs: `FeeBounds`, and the
action property `FeeOnlyFalls`. `ScheduleInv` says that the base fee is an admitted one.
`PowAccuracy` compares `pow` with the exact power (`Power` in MCFeeParameters, a product
defined by recursion, because the provers know no laws of `^`). A truncated number `Tracks` a
power if it is at most the exact one and below it by at most as many units as the exponent
counts; a truncated product of two such numbers, neither above one, tracks the product of the
powers, because it loses what its factors have lost and one unit more. Both columns of the table
of squarings keep that, bit by bit.

### cp-amm

* **PoolSwap_proofs**: `SwapResultType`: the fee never exceeds the amount, all shares are
  natural numbers, and the price moves down selling A and up selling B. With the one bound
  that the code checks per direction, the price stays in range. `ThereAndBackNeverProfits`: the
  output of a swap, sold back at the price it left behind, returns at most the input, because
  the next price is rounded against the trader and so is the amount out, and fees only take
  away. `QuoteSkipsPreSwap`: `update_references` leaves alone what the fee depends on.
* **CpAmm_proofs**: first the typing of the position and reward operations, then `TypeInv`, the
  conjunction of `TypeOK`, `PriceInRange` and positive durations of initialized rewards, which
  is inductive; one lemma per action. `TypeOK` alone is not: the amounts of a removal are
  natural numbers only if the price is in range, and a reward rate only if its duration is
  positive. `TypeCorrect` and `PriceSafety` follow. Relative to `TypeInv`:
  * `CheckpointSafety`: accumulators only grow, and an instruction that settles a position
    moves its checkpoint to the current accumulator;
  * `VolatilitySafety`: the invariant adds that the last update is not in the future and
    that a missing reference price means that no update has happened, so that the first
    swap is past the filter period and sets it;
  * `ScheduleSafety`: what a schedule has unlocked grows with time and is bounded by what was
    locked, and a refresh sets the released amount to exactly that;
  * `PositionCountSafety`: the set of open positions is finite and counted (`CountInv`);
  * `QuoteSafety` and `RoundTripSafety`, from the two theorems on swaps above;
  * `LedgerRefinement`: one lemma per instruction that touches liquidity, and one for all that
    leave it alone. The shares of a split are at most what they are shares of; that is where
    multiply-divide comes in.
* **CpAmmVaults_proofs**, what the positions hold and may claim together:
  * `LiquiditySafety` and `PermanentLockSafety` (`OwnedInv`): each step of the *ledger* keeps
    the sums, and every instruction is such a step or none;
  * `VestedLiquiditySafety`: `LockInv` adds that there are finitely many locks and that every
    live lock still holds something. Without the latter a position closed with nothing vested
    could leave a lock behind;
  * `VaultSafety`: `VaultsCoverClaims` is not inductive, because each claim in it is already
    rounded down, and the fraction that is rounded away now counts when the accumulator has
    grown or a split has moved liquidity. `SolvencyInv` says it without rounding: a vault is the sum of a reserve, a stock of fees and
    the fees of protocol and partner, where reserve times the unit of the curve covers
    liquidity times the distance of the price from its end of the range, and the stock of fees
    covers the claims of all positions counted in fractions of a token. A swap moves the
    reserve by an amount rounded in its favour (`ReserveAMoves`, `ReserveBMoves`), adds a fee to
    the stock and distributes at most that fee (`ClaimsGrowByFee`); settling a position turns a
    fraction into a whole amount and drops the remainder. Truncating every claim then gives
    the property;
  * `EarnedFeesSafety`, an action property, which needs that settling is exact: a position's
    pending fee is the same settled now or in the state before;
  * `RewardVaultSafety`: `RewardInv` (`Backed`) is again the claim before rounding, in units of
    rate times liquidity: what positions have accrued, the seconds without liquidity and the
    seconds to the end of the campaign, at its rate, are at most the balance. `update_rewards`
    moves seconds from the last term to the first or the second (`UpdateDistributes`); funding
    with or without carry forward replaces the rate, and its rounding down is what keeps the
    new promise within the balance (`FundingPromises`); a withdrawal of the ineligible part
    releases at least what it pays (`ResetReleases`). It uses `SafeInv`: types, checkpoints,
    finiteness and `OwnedInv`, because a reward is divided by the pool's liquidity and
    multiplied by the positions';
  * `EarnedRewardsSafety`, an action property: what a position would hold of a reward if both
    were updated now (`EarnedReward`) falls only by what its vault pays, what a split moves to
    the other position, or all of it when the owner claims from a frozen vault. Two facts
    carry it. No step lets the level of a reward fall (`LevelGrows`): the accumulator as an
    update after the step would leave it is at least what an update before it would, because
    time only adds (`RewardGrowsWithTime`), an instruction that changes rate, duration end or
    liquidity has updated first, and the others touch nothing that accumulates (`EditFields`).
    And a second update at the same time adds nothing, even over another liquidity
    (`UpdatedTwice`), so that what a settled position has pending is all it has earned, to the
    unit. It needs `RewardInv` for one detail: a reward that was never initialized has
    accumulated nothing;
  * `PayoutSafety`: in every reachable state the checks between an owner and the money hold.
    It is the part of `UnlockedLiquidityIsWithdrawable` that does not need ENABLED, for every
    amount up to the unlocked liquidity, and the same for claims of fees and rewards.

### lending-pool, transfers, creation

* **LendingPool_proofs**: `LendingIInv` has the type invariant, the bound on the protocol
  fee, `PrincipalIsKept`, `ActivePositionsAreCounted` and that nothing exists before
  initialization. The bound on the fee is what makes the recorded collateral a natural
  number. From it follow `LendingTypeCorrect`, `PrincipalSafety`, `PositionCount` and, as an
  action property, `SettlementIsFinal`. `HealthyShorts` needs `EntryIsQuoted` besides, an
  invariant of its own: a position's entry price is the price before its sale, for good. Then
  the truncations of the ratio only lower the debt's value. `BorrowedSafety` adds that
  `total_borrowed` is the sum of the debts of active positions, and `CountersNeverUnderflow`
  that the checked subtractions of a settlement from the counters therefore succeed: no
  active position is ever stuck because of another's.

  `LoanBookRefinement` maps each instruction to a step of LoanBook: it needs that an active
  position's debt is a natural number and that a settlement brings the whole debt back, which
  is the slippage limit of its swap.
* **TokenTransfer_proofs**: `PreFeeIsExact` is the heart. With rate b of M and P the amount
  asked, x, times M over M - b, rounded up, P (M - b) lies in x M .. x M + (M - b) - 1; so the
  fee of P, rounded up, is P - x exactly, with a cap in force the fee of x plus the cap is the
  cap, and anything less than the smaller of the two brings less than x. At 100 percent the
  fee is the cap. `TransferInvariance` adds the types of clock and mint; `VaultSafety`,
  `InverseFeeSafety` and `ChargeSafety` follow, from `TransferAssumption` alone.
* **PoolFactory_proofs**: `FactoryInv` adds to soundness of the pools that every open static
  config is sound (a pool copied from one checks nothing again) and that a pool lives at the
  address its own seed and mints give. `PairSafety` then follows from the symmetry of the
  address, and `WindowSafety`, an action property, from the arithmetic of `validate`: the time
  to join is subtracted twice, and what is left is never in the saturated case of
  `PermissionlessActionAccess::new`. `EveryPoolIsUsable` closes the gap between creation and
  trading: whatever instruction created a pool, from whatever config, its fees, fee mode, price
  range, first price and activation point meet the assumptions under which the AMM is proved
  (`FeeAssumption`, `PriceRangeAssumption` and the membership of the initial price).

### Only model-checked

* `EveryLockIsReleased` and `EveryPoolIsActivated`: liveness under fairness.
* `UnlockedLiquidityIsWithdrawable`: it uses ENABLED. `PayoutSafety` has its guards.
* The four runs that show a disagreement: each is a behaviour, not a theorem.

## 5. Not modelled

* Metrics (except `total_position`), events, errors, account layouts and bumps: they are
  written and never read by an instruction. `total_reserves` of the lending pool is such a
  counter: `open_short` adds to it, and `remove_reserves` has no caller.
* Which wallet may claim protocol fees: `claim_protocol_fee` needs an operator account, which
  PoolFactory opens and closes, while CpAmm's action is any claim.
* The widths of integers: an overflow reverts the instruction.
* The `devnet` build, which skips `validate_quote_token`, and the `local` build, which takes
  everybody for an admin.
* TypeScript tests, simulations and build scripts.

## 6. Plan

1. a ledger of claims (tokens come in, claims are created, claims are paid) that CpAmm
   implements: `SolvencyInv`, `EarnedFeesSafety` and `EarnedRewardsSafety` are its steps, the
   refinement would put them in one statement;
2. an instance of CpAmm per pool of PoolFactory, with the pool's record for its constants:
   `EveryPoolIsUsable` is the fact that makes it possible;
3. LendingPool on top of CpAmm itself, in place of an AMM with constant liquidity.
