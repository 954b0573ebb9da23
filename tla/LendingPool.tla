---------------------------- MODULE LendingPool ----------------------------
(***************************************************************************)
(* The lending-pool program: shorting token A of a cp-amm pool against      *)
(* token B collateral.  Opening borrows token A from the lending pool's     *)
(* vault and sells it through a CPI swap; closing and liquidating buy it    *)
(* back with token B of the vault that all positions share.  Every          *)
(* instruction, its CPI included, is one transaction and one action; other  *)
(* users of the AMM move its price between them.                            *)
(***************************************************************************)
EXTENDS PoolSwap, FiniteSets, Functions

CONSTANTS
    User,                    \* wallets: they open shorts and may liquidate
    RATIO_SCALE,             \* 10_000, basis points
    MAX_PROTOCOL_FEE_BPS,    \* 1_000
    LIQUIDATION_BONUS,       \* 1000, in token B's smallest unit
    AmmLiquidity,            \* the liquidity of the AMM pool
    InitialSqrtPrices, InitialWallet,
    \* what callers may pass to the instructions:
    LendingParameters,       \* min_collateral_ratio, liquidation_threshold, protocol_fee_bps
    CollateralAmounts, BorrowAmounts, MinimumSolOuts, MaxSolIns,
    DepositAmounts, TradeAmounts

LendingParameter ==
    [min_collateral_ratio : Nat, liquidation_threshold : Nat, protocol_fee_bps : Nat]

(* The AMM pool has a flat fee: no scheduler, no dynamic fee.                *)
ASSUME LendingAssumption ==
    /\ ~DynamicFee.enabled /\ BaseFee.period_frequency = 0
    /\ RATIO_SCALE \in Nat \ {0}
    /\ MAX_PROTOCOL_FEE_BPS \in 0 .. RATIO_SCALE
    /\ LIQUIDATION_BONUS \in Nat
    /\ AmmLiquidity \in Nat \ {0}
    /\ InitialSqrtPrices \subseteq SqrtMinPrice .. SqrtMaxPrice
    /\ InitialWallet \in Nat
    /\ LendingParameters \subseteq LendingParameter
    /\ CollateralAmounts \subseteq Nat /\ BorrowAmounts \subseteq Nat
    /\ MinimumSolOuts \subseteq Nat /\ MaxSolIns \subseteq Nat
    /\ DepositAmounts \subseteq Nat /\ TradeAmounts \subseteq Nat

ASSUME UserAssumption == IsFiniteSet(User)

VARIABLES
    amm,            \* the AMM pool as the lending pool sees it: price and status
    lendingPool,    \* the LendingPool account
    shorts,         \* the ShortPosition accounts, one per user, never closed
    vault,          \* balances of the lending pool's token A and token B vault
    deposited,      \* token A transferred to the vault by its lenders
    quoted,         \* the AMM price that each user saw when opening; no account
                    \* keeps deposited or quoted, they are history
    wallet          \* token B of the users

lendingVars == <<amm, lendingPool, shorts, vault, deposited, quoted, wallet>>

Active == 0
Closed == 1
Liquidated == 2

LendingPoolState ==
    [initialized : BOOLEAN, min_collateral_ratio : Nat, liquidation_threshold : Nat,
     protocol_fee_bps : Nat, total_reserves : Nat, total_borrowed : Nat,
     active_positions : Nat]

ShortPosition ==
    [collateral_amount : Nat, borrowed_amount : Nat, sol_from_swap : Nat,
     entry_sqrt_price : Nat \ {0}, status : {Active, Closed, Liquidated}]

ActiveShorts == {u \in DOMAIN shorts : shorts[u].status = Active}

LendingTypeOK ==
    /\ amm \in [sqrt_price : SqrtMinPrice .. SqrtMaxPrice, enabled : BOOLEAN]
    /\ lendingPool \in LendingPoolState
    /\ DOMAIN shorts \subseteq User
    /\ shorts \in [DOMAIN shorts -> ShortPosition]
    /\ vault \in [Token -> Nat]
    /\ deposited \in Nat
    /\ quoted \in [DOMAIN shorts -> SqrtMinPrice .. SqrtMaxPrice]
    /\ wallet \in [User -> Nat]
-----------------------------------------------------------------------------
LendingInit ==
    /\ amm \in [sqrt_price : InitialSqrtPrices, enabled : {TRUE}]
    /\ lendingPool = [initialized |-> FALSE, min_collateral_ratio |-> 0,
                      liquidation_threshold |-> 0, protocol_fee_bps |-> 0,
                      total_reserves |-> 0, total_borrowed |-> 0, active_positions |-> 0]
    /\ shorts = [u \in {} |-> 0]
    /\ vault = [t \in Token |-> 0]
    /\ deposited = 0
    /\ quoted = [u \in {} |-> 0]
    /\ wallet = [u \in User |-> InitialWallet]

InitializeLendingPool(params) ==
    /\ ~lendingPool.initialized
    /\ params.min_collateral_ratio >= RATIO_SCALE
    /\ params.liquidation_threshold < params.min_collateral_ratio
    /\ params.protocol_fee_bps <= MAX_PROTOCOL_FEE_BPS
    /\ lendingPool' = [initialized |-> TRUE,
                       min_collateral_ratio |-> params.min_collateral_ratio,
                       liquidation_threshold |-> params.liquidation_threshold,
                       protocol_fee_bps |-> params.protocol_fee_bps,
                       total_reserves |-> 0, total_borrowed |-> 0, active_positions |-> 0]
    /\ UNCHANGED <<amm, shorts, vault, deposited, quoted, wallet>>

(* There is no deposit instruction: lenders transfer to the vault account.   *)
DepositTokenA(amount) ==
    /\ lendingPool.initialized
    /\ vault' = [vault EXCEPT !["a"] = @ + amount]
    /\ deposited' = deposited + amount
    /\ UNCHANGED <<amm, lendingPool, shorts, quoted, wallet>>
-----------------------------------------------------------------------------
(* Mutant: a CPI that does not enforce its minimum output.                   *)
AmmAccepts_AnyOutput(amount_in, result, a_for_b, minimum_amount_out) ==
    /\ amm.enabled
    /\ amount_in > 0
    /\ PriceAfterIsValid(result.next_sqrt_price, a_for_b)

(* The cp-amm swap that the program calls and that other traders use.  The   *)
(* AMM's own vaults always cover it.                                         *)
AmmSwapResult(amount_in, a_for_b) ==
    GetSwapResult(amm.sqrt_price, AmmLiquidity, InitialDynamicFeeState, amount_in, a_for_b,
                  FALSE, ActivationPoint)

AmmAccepts(amount_in, result, a_for_b, minimum_amount_out) ==
    /\ amm.enabled
    /\ amount_in > 0
    /\ PriceAfterIsValid(result.next_sqrt_price, a_for_b)
    /\ result.output_amount >= minimum_amount_out

AmmTrade(amount_in, a_for_b) ==
    \E result \in {AmmSwapResult(amount_in, a_for_b)} :
        /\ AmmAccepts(amount_in, result, a_for_b, 0)
        /\ amm' = [amm EXCEPT !.sqrt_price = result.next_sqrt_price]
        /\ UNCHANGED <<lendingPool, shorts, vault, deposited, quoted, wallet>>

AmmSetPoolStatus ==
    /\ amm' = [amm EXCEPT !.enabled = ~@]
    /\ UNCHANGED <<lendingPool, shorts, vault, deposited, quoted, wallet>>
-----------------------------------------------------------------------------
ProtocolFee(collateral_amount) ==
    MulDivDown(collateral_amount, lendingPool.protocol_fee_bps, RATIO_SCALE)

(* Mutant: the debt is recorded net of the swap's slippage limit.            *)
NewShort_NetDebt(collateral_amount, borrowed_amount, sol_from_swap, entry_sqrt_price) ==
    [collateral_amount |-> collateral_amount,
     borrowed_amount |-> borrowed_amount - sol_from_swap, sol_from_swap |-> sol_from_swap,
     entry_sqrt_price |-> entry_sqrt_price, status |-> Active]

NewShort(collateral_amount, borrowed_amount, sol_from_swap, entry_sqrt_price) ==
    [collateral_amount |-> collateral_amount, borrowed_amount |-> borrowed_amount,
     sol_from_swap |-> sol_from_swap, entry_sqrt_price |-> entry_sqrt_price,
     status |-> Active]

(* Mutant: the entry price is read after the swap has moved it.              *)
EntrySqrtPrice_AfterSwap(result) == result.next_sqrt_price

(* The pool's price, read before the CPI swap.                               *)
EntrySqrtPrice(result) == amm.sqrt_price

(* The position records minimum_sol_out as the proceeds of the swap.  Its     *)
(* account outlives it, so a user opens once.                                *)
OpenShort(u, collateral_amount, borrow_amount, minimum_sol_out) ==
    \E result \in {AmmSwapResult(borrow_amount, TRUE)},
       net_collateral \in {collateral_amount - ProtocolFee(collateral_amount)} :
        /\ lendingPool.initialized
        /\ u \notin DOMAIN shorts
        /\ wallet[u] >= collateral_amount
        /\ vault["a"] >= borrow_amount
        /\ AmmAccepts(borrow_amount, result, TRUE, minimum_sol_out)
        /\ wallet' = [wallet EXCEPT ![u] = @ - collateral_amount]
        /\ vault' = [vault EXCEPT !["a"] = @ - borrow_amount,
                                  !["b"] = @ + collateral_amount + result.output_amount]
        /\ amm' = [amm EXCEPT !.sqrt_price = result.next_sqrt_price]
        /\ lendingPool' = [lendingPool EXCEPT !.total_reserves = @ + net_collateral,
                                              !.total_borrowed = @ + borrow_amount,
                                              !.active_positions = @ + 1]
        /\ shorts' = [v \in DOMAIN shorts \cup {u} |->
                IF v = u
                THEN NewShort(net_collateral, borrow_amount, minimum_sol_out,
                              EntrySqrtPrice(result))
                ELSE shorts[v]]
        /\ quoted' = [v \in DOMAIN shorts \cup {u} |->
                IF v = u THEN amm.sqrt_price ELSE quoted[v]]
        /\ UNCHANGED deposited

(* Mutant: the status is not checked.                                        *)
CanSettleShort_AnyStatus(u) ==
    /\ lendingPool.active_positions >= 1
    /\ lendingPool.total_borrowed >= shorts[u].borrowed_amount

(* Mutant: the counters are not checked either.                              *)
CanSettleShort_Unchecked(u) == TRUE

(* The fields of the pool account that closing and liquidating update; the   *)
(* subtractions are checked.                                                 *)
CanSettleShort(u) ==
    /\ shorts[u].status = Active
    /\ lendingPool.active_positions >= 1
    /\ lendingPool.total_borrowed >= shorts[u].borrowed_amount

(* Mutant: the position count is not reduced.                                *)
PoolWithout_Uncounted(short) ==
    [lendingPool EXCEPT !.total_borrowed = @ - short.borrowed_amount]

PoolWithout(short) ==
    [lendingPool EXCEPT !.active_positions = @ - 1,
                        !.total_borrowed = @ - short.borrowed_amount]

(* Buys back with all of max_sol_in; the rest of the collateral is returned. *)
CloseShort(u, max_sol_in) ==
    \E result \in {AmmSwapResult(max_sol_in, FALSE)} :
        /\ u \in DOMAIN shorts
        /\ CanSettleShort(u)
        /\ AmmAccepts(max_sol_in, result, FALSE, shorts[u].borrowed_amount)
        /\ shorts[u].collateral_amount >= max_sol_in
        /\ vault["b"] >= shorts[u].collateral_amount
        /\ vault' = [vault EXCEPT !["a"] = @ + result.output_amount,
                                  !["b"] = @ - shorts[u].collateral_amount]
        /\ wallet' = [wallet EXCEPT ![u] = @ + shorts[u].collateral_amount - max_sol_in]
        /\ amm' = [amm EXCEPT !.sqrt_price = result.next_sqrt_price]
        /\ lendingPool' = PoolWithout(shorts[u])
        /\ shorts' = [shorts EXCEPT ![u].status = Closed]
        /\ UNCHANGED <<deposited, quoted>>

(* The debt in token B: borrowed_amount scaled by the ratio of the square-   *)
(* root prices, in basis points.                                             *)
BorrowedValue(short, current_sqrt_price) ==
    MulDivDown(short.borrowed_amount,
               MulDivDown(current_sqrt_price, RATIO_SCALE, short.entry_sqrt_price),
               RATIO_SCALE)

(* A debt of value zero has the ratio u128::MAX.                             *)
RatioIsBelow(short, borrowed_value, threshold) ==
    /\ borrowed_value # 0
    /\ MulDivDown(short.collateral_amount + short.sol_from_swap, RATIO_SCALE, borrowed_value)
          < threshold

(* get_collateral_ratio below the liquidation threshold.                     *)
IsLiquidatable(short, current_sqrt_price) ==
    RatioIsBelow(short, BorrowedValue(short, current_sqrt_price),
                 lendingPool.liquidation_threshold)

(* Anyone may liquidate, with any max_sol_in that the shared vault covers.   *)
Liquidate(u, liquidator, max_sol_in) ==
    \E result \in {AmmSwapResult(max_sol_in, FALSE)} :
        /\ u \in DOMAIN shorts
        /\ CanSettleShort(u)
        /\ IsLiquidatable(shorts[u], amm.sqrt_price)
        /\ AmmAccepts(max_sol_in, result, FALSE, shorts[u].borrowed_amount)
        /\ vault["b"] >= max_sol_in + LIQUIDATION_BONUS
        /\ vault' = [vault EXCEPT !["a"] = @ + result.output_amount,
                                  !["b"] = @ - max_sol_in - LIQUIDATION_BONUS]
        /\ wallet' = [wallet EXCEPT ![liquidator] = @ + LIQUIDATION_BONUS]
        /\ amm' = [amm EXCEPT !.sqrt_price = result.next_sqrt_price]
        /\ lendingPool' = PoolWithout(shorts[u])
        /\ shorts' = [shorts EXCEPT ![u].status = Liquidated]
        /\ UNCHANGED <<deposited, quoted>>

(* calculate_pnl, signed; no instruction calls it.                           *)
CalculatePnl(short, buyback_cost) ==
    short.collateral_amount + short.sol_from_swap - buyback_cost
-----------------------------------------------------------------------------
LendingInstruction ==
    \/ \E params \in LendingParameters : InitializeLendingPool(params)
    \/ \E amount \in DepositAmounts : DepositTokenA(amount)
    \/ \E u \in User, collateral \in CollateralAmounts, borrow \in BorrowAmounts,
          minimum_sol_out \in MinimumSolOuts :
          OpenShort(u, collateral, borrow, minimum_sol_out)
    \/ \E u \in User, max_sol_in \in MaxSolIns : CloseShort(u, max_sol_in)
    \/ \E u, liquidator \in User, max_sol_in \in MaxSolIns :
          Liquidate(u, liquidator, max_sol_in)

AmmInstruction ==
    \/ \E amount_in \in TradeAmounts, a_for_b \in BOOLEAN : AmmTrade(amount_in, a_for_b)
    \/ AmmSetPoolStatus

LendingNext == LendingInstruction \/ AmmInstruction

LendingSpec == LendingInit /\ [][LendingNext]_lendingVars
-----------------------------------------------------------------------------
(* active_positions counts the active positions: open, close and liquidate   *)
(* in any order never lose one nor count one twice, so decrement_positions   *)
(* never fails.                                                              *)
ActivePositionsAreCounted == lendingPool.active_positions = Cardinality(ActiveShorts)

(* total_borrowed is what the active positions owe together, so              *)
(* remove_borrowed never fails and no settled debt is still counted.         *)
BorrowedIsOwed ==
    lendingPool.total_borrowed =
        SumFunction([u \in ActiveShorts |-> shorts[u].borrowed_amount])

(* The lenders' token A is in the vault or owed by active positions: however *)
(* the AMM price moves and whoever settles, closing and liquidating bring    *)
(* back at least what was borrowed.                                          *)
PrincipalIsKept == vault["a"] + lendingPool.total_borrowed >= deposited

(* A position that its collateral covered at the liquidation threshold is    *)
(* liquidated only after the AMM price has risen above what it was when the  *)
(* user opened.  Opening itself sells token A and pushes the price down: the *)
(* return of the price to where it was, the sale undone by any trades of     *)
(* others, is no rise, and no truncation of the ratio counts as one.         *)
NoLiquidationWithoutPriceRise ==
    \A u \in ActiveShorts :
        /\ amm.sqrt_price <= quoted[u]
        /\ (shorts[u].collateral_amount + shorts[u].sol_from_swap) * RATIO_SCALE
              >= shorts[u].borrowed_amount * lendingPool.liquidation_threshold
        => ~IsLiquidatable(shorts[u], amm.sqrt_price)

(* A settled position is final: it is never settled again, reopened or       *)
(* removed, whatever its owner, liquidators and other users do.              *)
SettledIsFinal ==
    [][\A u \in DOMAIN shorts :
          /\ u \in DOMAIN shorts'
          /\ shorts[u].status # Active => shorts'[u] = shorts[u]]_lendingVars
-----------------------------------------------------------------------------
(* The loan that a user's position account stands for.                       *)
LoanOf(u) == IF u \in DOMAIN shorts THEN shorts[u].borrowed_amount ELSE 0

StandingOf(u) ==
    CASE u \notin DOMAIN shorts -> "none"
      [] u \in ActiveShorts -> "owed"
      [] OTHER -> "settled"

Loans == INSTANCE LoanBook WITH
            cash <- vault["a"],
            borrowed <- [u \in User |-> LoanOf(u)],
            standing <- [u \in User |-> StandingOf(u)]

(* The program implements the loan book: every instruction, and every swap   *)
(* of others on the AMM, is one step of it or leaves it alone.  Token A      *)
(* leaves the vault only as a user's first loan, and whoever settles a loan, *)
(* at whatever price, brings back at least that loan, at once and once.      *)
ImplementsLoanBook == Loans!LoanSpec
-----------------------------------------------------------------------------
(* What README.md says of the program.                                       *)

(* "150% minimum collateralization": by the program's own measure, every     *)
(* position was opened at or above the pool's min_collateral_ratio.          *)
OpenedAboveMinimumCollateral ==
    \A u \in DOMAIN shorts :
        ~RatioIsBelow(shorts[u], BorrowedValue(shorts[u], shorts[u].entry_sqrt_price),
                      lendingPool.min_collateral_ratio)

(* "Return collateral +- PnL to user": closing pays the owner what           *)
(* calculate_pnl says of the buyback the vault paid for.                     *)
CloseReturnsPnl ==
    [][\A u \in ActiveShorts :
          u \in DOMAIN shorts' /\ shorts'[u].status = Closed =>
              LET returned == wallet'[u] - wallet[u]
              IN  returned = CalculatePnl(shorts[u], vault["b"] - vault'["b"] - returned)
      ]_lendingVars

(* "Protects pool solvency": the shared vault keeps the collateral of every  *)
(* active position, liquidations of other positions included.                *)
VaultKeepsCollateral ==
    vault["b"] >= SumFunction([u \in ActiveShorts |-> shorts[u].collateral_amount])

(* "Liquidation occurs below 120% collateral ratio": a position whose        *)
(* collateral is worth less than the threshold times its debt, at the AMM    *)
(* price of token A in token B, can be liquidated.                           *)
UndercollateralizedIsLiquidatable ==
    \A u \in ActiveShorts :
        (shorts[u].collateral_amount + shorts[u].sol_from_swap) * RATIO_SCALE * LIQUIDITY_SCALE
            < shorts[u].borrowed_amount * amm.sqrt_price * amm.sqrt_price
                * lendingPool.liquidation_threshold
        => IsLiquidatable(shorts[u], amm.sqrt_price)
=============================================================================
