------------------------ MODULE LendingPool_proofs ------------------------
(***************************************************************************)
(* What holds of the lending pool for every set of users, every amount they *)
(* may pass, every AMM price range and every flat fee.                      *)
(***************************************************************************)
EXTENDS LendingPool, PoolSwap_proofs

(* The CPI swap returns natural amounts and, when the AMM accepts it, leaves *)
(* the price in its range.                                                   *)
LEMMA AmmSwapType ==
    ASSUME LendingTypeOK, NEW amount_in \in Nat, NEW a_for_b \in BOOLEAN,
           NEW minimum_amount_out
    PROVE  LET result == AmmSwapResult(amount_in, a_for_b)
           IN  /\ result.output_amount \in Nat
               /\ AmmAccepts(amount_in, result, a_for_b, minimum_amount_out) =>
                      result.next_sqrt_price \in SqrtMinPrice .. SqrtMaxPrice
<1> DEFINE result == AmmSwapResult(amount_in, a_for_b)
<1>1. /\ amm.sqrt_price \in SqrtMinPrice .. SqrtMaxPrice
      /\ amm.sqrt_price \in Nat \ {0}
    BY PriceRangeAssumption DEF UsablePriceRange, LendingTypeOK
<1>2. AmmLiquidity \in Nat \ {0} /\ ActivationPoint \in Nat
    BY LendingAssumption, FeeScale
<1>3. InitialDynamicFeeState \in DynamicFeeState
    BY DEF InitialDynamicFeeState, DynamicFeeState
<1>4. /\ result \in SwapResults
      /\ IF a_for_b THEN result.next_sqrt_price <= amm.sqrt_price
                    ELSE result.next_sqrt_price >= amm.sqrt_price
    BY <1>1, <1>2, <1>3, SwapResultType DEF AmmSwapResult
<1> HIDE DEF result
<1>5. result.output_amount \in Nat /\ result.next_sqrt_price \in Nat
    BY <1>4 DEF SwapResults
<1>6. ASSUME AmmAccepts(amount_in, result, a_for_b, minimum_amount_out)
      PROVE  result.next_sqrt_price \in SqrtMinPrice .. SqrtMaxPrice
    BY <1>1, <1>4, <1>5, <1>6, PriceStaysInRange DEF AmmAccepts
<1> QED
    BY <1>5, <1>6 DEF result

(* What callers may pass are natural amounts.                                *)
LEMMA InputTypes ==
    /\ LendingParameters \subseteq LendingParameter
    /\ CollateralAmounts \subseteq Nat /\ BorrowAmounts \subseteq Nat
    /\ MinimumSolOuts \subseteq Nat /\ MaxSolIns \subseteq Nat
    /\ DepositAmounts \subseteq Nat /\ TradeAmounts \subseteq Nat
BY LendingAssumption

(* The protocol fee of an initialized pool is at most the collateral.        *)
FeeIsBounded == lendingPool.protocol_fee_bps <= RATIO_SCALE

(* Nothing is lent or deposited before the pool exists.                      *)
EmptyBeforeInitialization ==
    lendingPool.initialized \/ (DOMAIN shorts = {} /\ deposited = 0)

LEMMA ProtocolFeeType ==
    ASSUME LendingTypeOK, FeeIsBounded, NEW collateral_amount \in Nat
    PROVE  /\ ProtocolFee(collateral_amount) \in Nat
           /\ ProtocolFee(collateral_amount) <= collateral_amount
<1>1. lendingPool.protocol_fee_bps \in Nat
    BY DEF LendingTypeOK, LendingPoolState
<1>2. RATIO_SCALE \in Nat \ {0}
    BY LendingAssumption
<1> QED
    BY <1>1, <1>2, MulDivDownType, MulDivDownBound DEF ProtocolFee, FeeIsBounded

(* The inductive invariant: types, the fee bound that initialization checks, *)
(* and the two accounts the pool keeps of its positions and its principal.   *)
LendingIInv ==
    /\ LendingTypeOK
    /\ FeeIsBounded
    /\ PrincipalIsKept
    /\ ActivePositionsAreCounted
    /\ EmptyBeforeInitialization

LEMMA LendingInitIInv == LendingInit => LendingIInv
<1> SUFFICES ASSUME LendingInit PROVE LendingIInv
    OBVIOUS
<1>1. LendingTypeOK
    BY LendingAssumption, PriceRangeAssumption
    DEF UsablePriceRange, LendingInit, LendingTypeOK, LendingPoolState, Token
<1>2. FeeIsBounded
    BY LendingAssumption DEF LendingInit, FeeIsBounded
<1>3. PrincipalIsKept
    BY DEF LendingInit, PrincipalIsKept, Token
<1>4. ActivePositionsAreCounted
    <2>1. ActiveShorts = {}
        BY DEF LendingInit, ActiveShorts
    <2> QED
        BY <2>1, FS_EmptySet DEF LendingInit, ActivePositionsAreCounted
<1>5. EmptyBeforeInitialization
    BY DEF LendingInit, EmptyBeforeInitialization
<1> QED
    BY <1>1, <1>2, <1>3, <1>4, <1>5 DEF LendingIInv

(* Opening a short adds exactly one active position.                         *)
LEMMA OpenShortIInv ==
    ASSUME LendingIInv, NEW u \in User, NEW collateral_amount \in Nat, NEW borrow_amount \in Nat,
           NEW minimum_sol_out \in Nat,
           OpenShort(u, collateral_amount, borrow_amount, minimum_sol_out)
    PROVE  LendingIInv'
<1> USE DEF LendingIInv
<1> DEFINE result == AmmSwapResult(borrow_amount, TRUE)
           net    == collateral_amount - ProtocolFee(collateral_amount)
<1>1. net \in Nat
    BY ProtocolFeeType
<1>2. /\ lendingPool.initialized
      /\ u \notin DOMAIN shorts
      /\ wallet[u] >= collateral_amount
      /\ vault["a"] >= borrow_amount
      /\ AmmAccepts(borrow_amount, result, TRUE, minimum_sol_out)
      /\ wallet' = [wallet EXCEPT ![u] = @ - collateral_amount]
      /\ vault' = [vault EXCEPT !["a"] = @ - borrow_amount,
                                !["b"] = @ + collateral_amount + result.output_amount]
      /\ amm' = [amm EXCEPT !.sqrt_price = result.next_sqrt_price]
      /\ lendingPool' = [lendingPool EXCEPT !.total_reserves = @ + net,
                                            !.total_borrowed = @ + borrow_amount,
                                            !.active_positions = @ + 1]
      /\ shorts' = [v \in DOMAIN shorts \cup {u} |->
                        IF v = u THEN NewShort(net, borrow_amount, minimum_sol_out, amm.sqrt_price)
                        ELSE shorts[v]]
      /\ quoted' = [v \in DOMAIN shorts \cup {u} |-> IF v = u THEN amm.sqrt_price ELSE quoted[v]]
      /\ deposited' = deposited
    BY DEF OpenShort, EntrySqrtPrice
<1>3. result.output_amount \in Nat /\ result.next_sqrt_price \in SqrtMinPrice .. SqrtMaxPrice
    BY <1>2, AmmSwapType
<1> HIDE DEF result, net
<1>4. LendingTypeOK'
    <2>1. amm' \in [sqrt_price : SqrtMinPrice .. SqrtMaxPrice, enabled : BOOLEAN]
        BY <1>2, <1>3 DEF LendingTypeOK
    <2>2. lendingPool' \in LendingPoolState
        <3>1. lendingPool \in LendingPoolState
            BY DEF LendingTypeOK
        <3>2. /\ lendingPool.total_reserves + net \in Nat
              /\ lendingPool.total_borrowed + borrow_amount \in Nat
              /\ lendingPool.active_positions + 1 \in Nat
            BY <1>1, <3>1 DEF LendingPoolState
        <3> QED
            BY <1>2, <3>1, <3>2 DEF LendingPoolState
    <2>3. amm.sqrt_price \in Nat \ {0}
        BY PriceRangeAssumption DEF UsablePriceRange, LendingTypeOK
    <2>4. NewShort(net, borrow_amount, minimum_sol_out, amm.sqrt_price) \in ShortPosition
        BY <1>1, <2>3 DEF NewShort, ShortPosition
    <2>5. DOMAIN shorts' \subseteq User /\ shorts' \in [DOMAIN shorts' -> ShortPosition]
        BY <1>2, <2>4 DEF LendingTypeOK
    <2>6. vault' \in [Token -> Nat]
        BY <1>2, <1>3 DEF LendingTypeOK, Token
    <2>7. wallet' \in [User -> Nat]
        BY <1>2 DEF LendingTypeOK
    <2>8. quoted' \in [DOMAIN shorts' -> SqrtMinPrice .. SqrtMaxPrice]
        BY <1>2 DEF LendingTypeOK
    <2> QED
        BY <1>2, <2>1, <2>2, <2>5, <2>6, <2>7, <2>8 DEF LendingTypeOK
<1>5. FeeIsBounded'
    BY <1>2 DEF FeeIsBounded, LendingTypeOK, LendingPoolState
<1>6. PrincipalIsKept'
    <2>1. vault["a"] \in Nat /\ lendingPool.total_borrowed \in Nat /\ deposited \in Nat
        BY DEF LendingTypeOK, LendingPoolState, Token
    <2>2. /\ vault'["a"] = vault["a"] - borrow_amount
          /\ lendingPool'.total_borrowed = lendingPool.total_borrowed + borrow_amount
        BY <1>2 DEF LendingTypeOK, LendingPoolState, Token
    <2> QED
        BY <1>2, <2>1, <2>2 DEF PrincipalIsKept
<1>7. ActivePositionsAreCounted'
    <2>1. ActiveShorts' = ActiveShorts \cup {u}
        BY <1>2 DEF ActiveShorts, NewShort
    <2>2. IsFiniteSet(ActiveShorts) /\ u \notin ActiveShorts
        BY <1>2, UserAssumption, FS_Subset DEF ActiveShorts, LendingTypeOK
    <2>3. Cardinality(ActiveShorts \cup {u}) = Cardinality(ActiveShorts) + 1
        BY <2>2, FS_AddElement
    <2>4. lendingPool'.active_positions = lendingPool.active_positions + 1
        BY <1>2 DEF LendingTypeOK, LendingPoolState
    <2> QED
        BY <2>1, <2>3, <2>4 DEF ActivePositionsAreCounted
<1>8. EmptyBeforeInitialization'
    BY <1>2 DEF EmptyBeforeInitialization, LendingTypeOK, LendingPoolState
<1> QED
    BY <1>4, <1>5, <1>6, <1>7, <1>8

(* Closing or liquidating removes exactly one active position and brings     *)
(* back what it owed.                                                        *)
LEMMA SettleIInv ==
    ASSUME LendingIInv, NEW u \in DOMAIN shorts, CanSettleShort(u),
           NEW status \in {Closed, Liquidated}, NEW output \in Nat,
           output >= shorts[u].borrowed_amount,
           amm' \in [sqrt_price : SqrtMinPrice .. SqrtMaxPrice, enabled : BOOLEAN],
           vault' \in [Token -> Nat], vault'["a"] = vault["a"] + output,
           wallet' \in [User -> Nat],
           lendingPool' = PoolWithout(shorts[u]),
           shorts' = [shorts EXCEPT ![u].status = status],
           deposited' = deposited, quoted' = quoted
    PROVE  LendingIInv'
<1> USE DEF LendingIInv
<1>1. /\ shorts[u] \in ShortPosition
      /\ shorts[u].status = Active /\ lendingPool.active_positions >= 1
      /\ lendingPool.total_borrowed >= shorts[u].borrowed_amount
    BY DEF CanSettleShort, LendingTypeOK
<1>2. shorts[u].borrowed_amount \in Nat
    BY <1>1 DEF ShortPosition
<1>3. LendingTypeOK'
    <2>1. lendingPool' \in LendingPoolState
        <3>1. lendingPool \in LendingPoolState
            BY DEF LendingTypeOK
        <3>2. /\ lendingPool.total_borrowed - shorts[u].borrowed_amount \in Nat
              /\ lendingPool.active_positions - 1 \in Nat
            BY <1>1, <1>2, <3>1 DEF LendingPoolState
        <3> QED
            BY <3>1, <3>2 DEF LendingPoolState, PoolWithout
    <2>2. [shorts[u] EXCEPT !.status = status] \in ShortPosition
        BY <1>1 DEF ShortPosition
    <2>3. DOMAIN shorts' = DOMAIN shorts /\ shorts' \in [DOMAIN shorts' -> ShortPosition]
        BY <2>2 DEF LendingTypeOK
    <2> QED
        BY <2>1, <2>3 DEF LendingTypeOK
<1>4. FeeIsBounded'
    BY DEF FeeIsBounded, PoolWithout, LendingTypeOK, LendingPoolState
<1>5. PrincipalIsKept'
    <2>1. vault["a"] \in Nat /\ lendingPool.total_borrowed \in Nat /\ deposited \in Nat
        BY DEF LendingTypeOK, LendingPoolState, Token
    <2>2. lendingPool'.total_borrowed = lendingPool.total_borrowed - shorts[u].borrowed_amount
        BY DEF LendingTypeOK, LendingPoolState, PoolWithout
    <2> QED
        BY <1>2, <2>1, <2>2 DEF PrincipalIsKept
<1>6. ActivePositionsAreCounted'
    <2>1. ActiveShorts' = ActiveShorts \ {u}
        BY DEF ActiveShorts, LendingTypeOK, Active, Closed, Liquidated
    <2>2. IsFiniteSet(ActiveShorts) /\ u \in ActiveShorts
        BY <1>1, UserAssumption, FS_Subset DEF ActiveShorts, LendingTypeOK
    <2>3. Cardinality(ActiveShorts \ {u}) = Cardinality(ActiveShorts) - 1
        BY <2>2, FS_RemoveElement
    <2>4. lendingPool'.active_positions = lendingPool.active_positions - 1
        BY DEF LendingTypeOK, LendingPoolState, PoolWithout
    <2> QED
        BY <2>1, <2>3, <2>4 DEF ActivePositionsAreCounted
<1>7. EmptyBeforeInitialization'
    <2>1. lendingPool.initialized
        BY DEF EmptyBeforeInitialization
    <2> QED
        BY <2>1 DEF EmptyBeforeInitialization, PoolWithout, LendingTypeOK, LendingPoolState
<1> QED
    BY <1>3, <1>4, <1>5, <1>6, <1>7

LEMMA CloseShortIInv ==
    ASSUME LendingIInv, NEW u \in User, NEW max_sol_in \in Nat, CloseShort(u, max_sol_in)
    PROVE  LendingIInv'
<1> DEFINE result == AmmSwapResult(max_sol_in, FALSE)
<1>1. /\ u \in DOMAIN shorts
      /\ CanSettleShort(u)
      /\ AmmAccepts(max_sol_in, result, FALSE, shorts[u].borrowed_amount)
      /\ shorts[u].collateral_amount >= max_sol_in
      /\ vault["b"] >= shorts[u].collateral_amount
      /\ vault' = [vault EXCEPT !["a"] = @ + result.output_amount,
                                !["b"] = @ - shorts[u].collateral_amount]
      /\ wallet' = [wallet EXCEPT ![u] = @ + shorts[u].collateral_amount - max_sol_in]
      /\ amm' = [amm EXCEPT !.sqrt_price = result.next_sqrt_price]
      /\ lendingPool' = PoolWithout(shorts[u])
      /\ shorts' = [shorts EXCEPT ![u].status = Closed]
      /\ deposited' = deposited /\ quoted' = quoted
    BY DEF CloseShort
<1>2. LendingTypeOK
    BY DEF LendingIInv
<1>3. /\ result.output_amount \in Nat
      /\ result.next_sqrt_price \in SqrtMinPrice .. SqrtMaxPrice
      /\ result.output_amount >= shorts[u].borrowed_amount
    BY <1>1, <1>2, AmmSwapType DEF AmmAccepts
<1> HIDE DEF result
<1>4. shorts[u].collateral_amount \in Nat
    BY <1>1, <1>2 DEF LendingTypeOK, ShortPosition
<1>5. amm' \in [sqrt_price : SqrtMinPrice .. SqrtMaxPrice, enabled : BOOLEAN]
    BY <1>1, <1>2, <1>3 DEF LendingTypeOK
<1>6. vault' \in [Token -> Nat] /\ vault'["a"] = vault["a"] + result.output_amount
    BY <1>1, <1>2, <1>3, <1>4 DEF LendingTypeOK, Token
<1>7. wallet' \in [User -> Nat]
    BY <1>1, <1>2, <1>4 DEF LendingTypeOK
<1> QED
    BY <1>1, <1>3, <1>5, <1>6, <1>7, SettleIInv

LEMMA LiquidateIInv ==
    ASSUME LendingIInv, NEW u \in User, NEW liquidator \in User, NEW max_sol_in \in Nat,
           Liquidate(u, liquidator, max_sol_in)
    PROVE  LendingIInv'
<1> DEFINE result == AmmSwapResult(max_sol_in, FALSE)
<1>1. /\ u \in DOMAIN shorts
      /\ CanSettleShort(u)
      /\ AmmAccepts(max_sol_in, result, FALSE, shorts[u].borrowed_amount)
      /\ vault["b"] >= max_sol_in + LIQUIDATION_BONUS
      /\ vault' = [vault EXCEPT !["a"] = @ + result.output_amount,
                                !["b"] = @ - max_sol_in - LIQUIDATION_BONUS]
      /\ wallet' = [wallet EXCEPT ![liquidator] = @ + LIQUIDATION_BONUS]
      /\ amm' = [amm EXCEPT !.sqrt_price = result.next_sqrt_price]
      /\ lendingPool' = PoolWithout(shorts[u])
      /\ shorts' = [shorts EXCEPT ![u].status = Liquidated]
      /\ deposited' = deposited /\ quoted' = quoted
    BY DEF Liquidate
<1>2. LendingTypeOK
    BY DEF LendingIInv
<1>3. /\ result.output_amount \in Nat
      /\ result.next_sqrt_price \in SqrtMinPrice .. SqrtMaxPrice
      /\ result.output_amount >= shorts[u].borrowed_amount
    BY <1>1, <1>2, AmmSwapType DEF AmmAccepts
<1> HIDE DEF result
<1>4. LIQUIDATION_BONUS \in Nat
    BY LendingAssumption
<1>5. amm' \in [sqrt_price : SqrtMinPrice .. SqrtMaxPrice, enabled : BOOLEAN]
    BY <1>1, <1>2, <1>3 DEF LendingTypeOK
<1>6. vault' \in [Token -> Nat] /\ vault'["a"] = vault["a"] + result.output_amount
    BY <1>1, <1>2, <1>3, <1>4 DEF LendingTypeOK, Token
<1>7. wallet' \in [User -> Nat]
    BY <1>1, <1>2, <1>4 DEF LendingTypeOK
<1> QED
    BY <1>1, <1>3, <1>5, <1>6, <1>7, SettleIInv

LEMMA LendingNextIInv == LendingIInv /\ [LendingNext]_lendingVars => LendingIInv'
<1> SUFFICES ASSUME LendingIInv, [LendingNext]_lendingVars
             PROVE  LendingIInv'
    OBVIOUS
<1>1. ASSUME NEW params \in LendingParameters, InitializeLendingPool(params)
      PROVE  LendingIInv'
    <2>1. params \in LendingParameter
        BY InputTypes
    <2>2. LendingTypeOK'
        BY <1>1, <2>1
        DEF InitializeLendingPool, LendingIInv, LendingTypeOK, LendingPoolState, LendingParameter
    <2>3. FeeIsBounded'
        <3>1. params.protocol_fee_bps <= MAX_PROTOCOL_FEE_BPS
            BY <1>1 DEF InitializeLendingPool
        <3>2. params.protocol_fee_bps \in Nat
            BY <2>1 DEF LendingParameter
        <3>3. params.protocol_fee_bps <= RATIO_SCALE
            BY <3>1, <3>2, LendingAssumption
        <3> QED
            BY <1>1, <3>3 DEF InitializeLendingPool, FeeIsBounded
    <2>4. DOMAIN shorts = {} /\ deposited = 0
        BY <1>1 DEF InitializeLendingPool, LendingIInv, EmptyBeforeInitialization
    <2>5. PrincipalIsKept'
        BY <1>1, <2>4 DEF InitializeLendingPool, LendingIInv, PrincipalIsKept, LendingTypeOK, Token
    <2>6. ActivePositionsAreCounted'
        <3>1. ActiveShorts' = {}
            BY <1>1, <2>4 DEF InitializeLendingPool, ActiveShorts
        <3> QED
            BY <1>1, <3>1, FS_EmptySet DEF InitializeLendingPool, ActivePositionsAreCounted
    <2>7. EmptyBeforeInitialization'
        BY <1>1 DEF InitializeLendingPool, EmptyBeforeInitialization
    <2> QED
        BY <2>2, <2>3, <2>5, <2>6, <2>7 DEF LendingIInv
<1>2. ASSUME NEW amount \in DepositAmounts, DepositTokenA(amount)
      PROVE  LendingIInv'
    <2>1. amount \in Nat
        BY InputTypes
    <2>2. LendingTypeOK'
        BY <1>2, <2>1 DEF DepositTokenA, LendingIInv, LendingTypeOK, Token
    <2>3. PrincipalIsKept'
        <3>1. /\ vault["a"] \in Nat /\ lendingPool.total_borrowed \in Nat /\ deposited \in Nat
              /\ vault'["a"] = vault["a"] + amount
            BY <1>2 DEF DepositTokenA, LendingIInv, LendingTypeOK, LendingPoolState, Token
        <3> QED
            BY <1>2, <2>1, <3>1 DEF DepositTokenA, LendingIInv, PrincipalIsKept
    <2>4. FeeIsBounded' /\ ActivePositionsAreCounted' /\ EmptyBeforeInitialization'
        BY <1>2 DEF DepositTokenA, LendingIInv, FeeIsBounded, ActivePositionsAreCounted,
                    ActiveShorts, EmptyBeforeInitialization
    <2> QED
        BY <2>2, <2>3, <2>4 DEF LendingIInv
<1>3. ASSUME NEW u \in User, NEW collateral \in CollateralAmounts, NEW borrow \in BorrowAmounts,
             NEW minimum_sol_out \in MinimumSolOuts,
             OpenShort(u, collateral, borrow, minimum_sol_out)
      PROVE  LendingIInv'
    BY <1>3, OpenShortIInv, InputTypes
<1>4. ASSUME NEW u \in User, NEW max_sol_in \in MaxSolIns, CloseShort(u, max_sol_in)
      PROVE  LendingIInv'
    BY <1>4, CloseShortIInv, InputTypes
<1>5. ASSUME NEW u \in User, NEW liquidator \in User, NEW max_sol_in \in MaxSolIns,
             Liquidate(u, liquidator, max_sol_in)
      PROVE  LendingIInv'
    BY <1>5, LiquidateIInv, InputTypes
<1>6. ASSUME NEW amount_in \in TradeAmounts, NEW a_for_b \in BOOLEAN, AmmTrade(amount_in, a_for_b)
      PROVE  LendingIInv'
    <2> DEFINE result == AmmSwapResult(amount_in, a_for_b)
    <2>1. /\ AmmAccepts(amount_in, result, a_for_b, 0)
          /\ amm' = [amm EXCEPT !.sqrt_price = result.next_sqrt_price]
          /\ UNCHANGED <<lendingPool, shorts, vault, deposited, quoted, wallet>>
        BY <1>6 DEF AmmTrade
    <2>2. result.next_sqrt_price \in SqrtMinPrice .. SqrtMaxPrice
        BY <2>1, AmmSwapType, InputTypes DEF LendingIInv
    <2> HIDE DEF result
    <2>3. LendingTypeOK'
        BY <2>1, <2>2 DEF LendingIInv, LendingTypeOK
    <2> QED
        BY <2>1, <2>3
        DEF LendingIInv, FeeIsBounded, PrincipalIsKept, ActivePositionsAreCounted, ActiveShorts,
            EmptyBeforeInitialization
<1>7. CASE AmmSetPoolStatus
    <2>1. LendingTypeOK'
        BY <1>7 DEF AmmSetPoolStatus, LendingIInv, LendingTypeOK
    <2> QED
        BY <1>7, <2>1 DEF AmmSetPoolStatus, LendingIInv, FeeIsBounded, PrincipalIsKept,
                          ActivePositionsAreCounted, ActiveShorts, EmptyBeforeInitialization
<1>8. CASE UNCHANGED lendingVars
    BY <1>8 DEF lendingVars, LendingIInv, LendingTypeOK, FeeIsBounded, PrincipalIsKept,
                ActivePositionsAreCounted, ActiveShorts, EmptyBeforeInitialization
<1> QED
    BY <1>1, <1>2, <1>3, <1>4, <1>5, <1>6, <1>7, <1>8
    DEF LendingNext, LendingInstruction, AmmInstruction

THEOREM LendingInvariance == LendingSpec => []LendingIInv
<1>1. LendingInit => LendingIInv
    BY LendingInitIInv
<1>2. LendingIInv /\ [LendingNext]_lendingVars => LendingIInv'
    BY LendingNextIInv
<1> QED
    BY <1>1, <1>2, PTL DEF LendingSpec
-----------------------------------------------------------------------------
(* BorrowedIsOwed.                                                           *)

Debts == [u \in ActiveShorts |-> shorts[u].borrowed_amount]

LEMMA DebtsType ==
    ASSUME LendingTypeOK
    PROVE  IsFiniteSet(ActiveShorts) /\ Debts \in [ActiveShorts -> Int]
           /\ Debts \in [ActiveShorts -> Nat]
<1>1. ActiveShorts \subseteq User
    BY DEF LendingTypeOK, ActiveShorts
<1>2. \A u \in ActiveShorts : shorts[u].borrowed_amount \in Nat
    BY DEF LendingTypeOK, ActiveShorts, ShortPosition
<1> QED
    BY <1>1, <1>2, UserAssumption, FS_Subset DEF Debts

LEMMA OpenShortBorrowed ==
    ASSUME LendingTypeOK, BorrowedIsOwed, NEW u \in User, NEW collateral_amount,
           NEW borrow_amount \in Nat, NEW minimum_sol_out,
           OpenShort(u, collateral_amount, borrow_amount, minimum_sol_out)
    PROVE  BorrowedIsOwed'
<1> DEFINE net == collateral_amount - ProtocolFee(collateral_amount)
           new == NewShort(net, borrow_amount, minimum_sol_out, amm.sqrt_price)
<1>1. /\ u \notin DOMAIN shorts
      /\ shorts' = [v \in DOMAIN shorts \cup {u} |-> IF v = u THEN new ELSE shorts[v]]
    BY DEF OpenShort, EntrySqrtPrice
<1>2. lendingPool'.total_borrowed = lendingPool.total_borrowed + borrow_amount
    BY DEF OpenShort, LendingTypeOK, LendingPoolState
<1>3. new.borrowed_amount = borrow_amount /\ new.status = Active
    BY DEF NewShort
<1> HIDE DEF new
<1>4. ActiveShorts' = ActiveShorts \cup {u} /\ u \notin ActiveShorts
    BY <1>1, <1>3 DEF ActiveShorts
<1>5. /\ IsFiniteSet(ActiveShorts) /\ Debts \in [ActiveShorts -> Int]
      /\ \A v \in ActiveShorts : Debts[v] = shorts[v].borrowed_amount
    BY DebtsType DEF Debts
<1>6. /\ \A v \in ActiveShorts : Debts'[v] = Debts[v]
      /\ Debts'[u] = borrow_amount /\ DOMAIN Debts' = ActiveShorts'
    <2>1. \A v \in ActiveShorts : shorts'[v].borrowed_amount = shorts[v].borrowed_amount
        BY <1>1, <1>4 DEF ActiveShorts
    <2> QED
        BY <1>1, <1>3, <1>4, <1>5, <2>1 DEF Debts
<1>7. Debts' \in [ActiveShorts' -> Int]
    BY <1>4, <1>5, <1>6 DEF Debts
<1>8. SumFunction(Debts') = SumFunction(Debts) + Debts'[u]
    <2>1. \A v \in ActiveShorts : Debts'[v] = Debts[v]
        BY <1>6
    <2>2. Debts \in [ActiveShorts -> Int] /\ IsFiniteSet(ActiveShorts)
        BY <1>5
    <2> QED
        BY <1>4, <1>7, <2>1, <2>2, SumGrow, Z3
<1> QED
    BY <1>2, <1>6, <1>8 DEF BorrowedIsOwed, Debts

LEMMA SettleBorrowed ==
    ASSUME LendingTypeOK, BorrowedIsOwed, NEW u \in DOMAIN shorts,
           shorts[u].status = Active, lendingPool' = PoolWithout(shorts[u]),
           NEW status \in {Closed, Liquidated}, shorts' = [shorts EXCEPT ![u].status = status]
    PROVE  BorrowedIsOwed'
<1>1. lendingPool'.total_borrowed = lendingPool.total_borrowed - shorts[u].borrowed_amount
    BY DEF PoolWithout, LendingTypeOK, LendingPoolState
<1>2. /\ DOMAIN shorts' = DOMAIN shorts
      /\ \A v \in DOMAIN shorts \ {u} : shorts'[v] = shorts[v]
      /\ shorts'[u].status # Active
    BY DEF LendingTypeOK, ShortPosition, Active, Closed, Liquidated
<1>3. ActiveShorts' = ActiveShorts \ {u} /\ u \in ActiveShorts
    BY <1>2 DEF ActiveShorts
<1>4. /\ IsFiniteSet(ActiveShorts) /\ Debts \in [ActiveShorts -> Int]
      /\ Debts[u] = shorts[u].borrowed_amount
    BY <1>3, DebtsType DEF Debts
<1>5. \A v \in ActiveShorts' : Debts'[v] = Debts[v]
    BY <1>2, <1>3 DEF Debts, ActiveShorts
<1>6. Debts' \in [ActiveShorts' -> Int]
    BY <1>3, <1>4, <1>5 DEF Debts
<1>7. SumFunction(Debts') = SumFunction(Debts) - Debts[u]
    <2>1. Debts \in [ActiveShorts -> Int] /\ IsFiniteSet(ActiveShorts)
        BY <1>4
    <2> QED
        BY <1>3, <1>5, <1>6, <2>1, SumShrink
<1> QED
    BY <1>1, <1>4, <1>7 DEF BorrowedIsOwed, Debts

LEMMA BorrowedStep ==
    ASSUME LendingIInv, BorrowedIsOwed, [LendingNext]_lendingVars
    PROVE  BorrowedIsOwed'
<1>0. LendingTypeOK
    BY DEF LendingIInv
<1>1. ASSUME NEW params \in LendingParameters, InitializeLendingPool(params)
      PROVE  BorrowedIsOwed'
    <2>1. DOMAIN shorts = {} /\ shorts' = shorts /\ lendingPool'.total_borrowed = 0
        BY <1>1 DEF InitializeLendingPool, LendingIInv, EmptyBeforeInitialization
    <2>2. ActiveShorts' = {}
        BY <2>1 DEF ActiveShorts
    <2>3. SumFunction(Debts') = 0
        BY <2>2, SumEmpty DEF Debts, SumFunction
    <2> QED
        BY <2>1, <2>3 DEF BorrowedIsOwed, Debts
<1>2. ASSUME NEW u \in User, NEW collateral \in CollateralAmounts, NEW borrow \in BorrowAmounts,
             NEW minimum_sol_out \in MinimumSolOuts,
             OpenShort(u, collateral, borrow, minimum_sol_out)
      PROVE  BorrowedIsOwed'
    BY <1>0, <1>2, OpenShortBorrowed, InputTypes
<1>3. ASSUME NEW u \in User, NEW max_sol_in, CloseShort(u, max_sol_in)
      PROVE  BorrowedIsOwed'
    <2>1. /\ u \in DOMAIN shorts /\ shorts[u].status = Active
          /\ lendingPool' = PoolWithout(shorts[u])
          /\ shorts' = [shorts EXCEPT ![u].status = Closed]
        BY <1>3 DEF CloseShort, CanSettleShort
    <2> QED
        BY <1>0, <2>1, SettleBorrowed
<1>4. ASSUME NEW u \in User, NEW liquidator, NEW max_sol_in, Liquidate(u, liquidator, max_sol_in)
      PROVE  BorrowedIsOwed'
    <2>1. /\ u \in DOMAIN shorts /\ shorts[u].status = Active
          /\ lendingPool' = PoolWithout(shorts[u])
          /\ shorts' = [shorts EXCEPT ![u].status = Liquidated]
        BY <1>4 DEF Liquidate, CanSettleShort
    <2> QED
        BY <1>0, <2>1, SettleBorrowed
<1>5. ASSUME UNCHANGED <<lendingPool, shorts>>
      PROVE  BorrowedIsOwed'
    BY <1>5 DEF BorrowedIsOwed, ActiveShorts
<1>6. CASE UNCHANGED lendingVars
    BY <1>5, <1>6 DEF lendingVars
<1>7. CASE AmmInstruction
    BY <1>5, <1>7 DEF AmmInstruction, AmmTrade, AmmSetPoolStatus
<1>8. ASSUME NEW amount, DepositTokenA(amount)
      PROVE  BorrowedIsOwed'
    BY <1>5, <1>8 DEF DepositTokenA
<1> QED
    BY <1>1, <1>2, <1>3, <1>4, <1>6, <1>7, <1>8 DEF LendingNext, LendingInstruction

(* total_borrowed is what the active positions owe together, for every       *)
(* number of users and every order of opening, closing and liquidating.      *)
THEOREM BorrowedSafety == LendingSpec => []BorrowedIsOwed
<1>1. LendingInit => BorrowedIsOwed
    <2> SUFFICES ASSUME LendingInit PROVE BorrowedIsOwed
        OBVIOUS
    <2>1. ActiveShorts = {} /\ lendingPool.total_borrowed = 0
        BY DEF LendingInit, ActiveShorts
    <2>2. SumFunction(Debts) = 0
        BY <2>1, SumEmpty DEF Debts, SumFunction
    <2> QED
        BY <2>1, <2>2 DEF BorrowedIsOwed, Debts
<1>2. LendingIInv /\ BorrowedIsOwed /\ [LendingNext]_lendingVars => BorrowedIsOwed'
    BY BorrowedStep
<1> QED
    BY <1>1, <1>2, LendingInvariance, PTL DEF LendingSpec

(* Every active position can settle as far as the pool's counters go: the    *)
(* checked subtractions of remove_borrowed and decrement_positions succeed   *)
(* whatever the other users did.                                             *)
THEOREM CountersNeverUnderflow ==
    LendingSpec => [](\A u \in ActiveShorts : CanSettleShort(u))
<1>1. ASSUME LendingIInv, BorrowedIsOwed
      PROVE  \A u \in ActiveShorts : CanSettleShort(u)
    <2> SUFFICES ASSUME NEW u \in ActiveShorts PROVE CanSettleShort(u)
        OBVIOUS
    <2>1. /\ IsFiniteSet(ActiveShorts) /\ Debts \in [ActiveShorts -> Nat]
          /\ Debts[u] = shorts[u].borrowed_amount
        BY <1>1, DebtsType DEF LendingIInv, Debts
    <2>2. Debts[u] <= SumFunctionOnSet(Debts, ActiveShorts)
        BY <2>1, SumMember
    <2>3. lendingPool.total_borrowed >= shorts[u].borrowed_amount
        <3>1. lendingPool.total_borrowed = SumFunctionOnSet(Debts, ActiveShorts)
            BY <1>1, <2>1 DEF BorrowedIsOwed, Debts, SumFunction
        <3>2. lendingPool.total_borrowed \in Nat /\ shorts[u].borrowed_amount \in Nat
            BY <1>1, <2>1 DEF LendingIInv, LendingTypeOK, LendingPoolState
        <3> QED
            BY <2>1, <2>2, <3>1, <3>2
    <2>4. lendingPool.active_positions >= 1
        <3>1. Cardinality(ActiveShorts) \in Nat /\ Cardinality(ActiveShorts) # 0
            BY <2>1, FS_CardinalityType, FS_EmptySet
        <3> QED
            BY <1>1, <3>1 DEF LendingIInv, ActivePositionsAreCounted
    <2>5. shorts[u].status = Active
        BY DEF ActiveShorts
    <2> QED
        BY <2>3, <2>4, <2>5 DEF CanSettleShort
<1> QED
    BY <1>1, LendingInvariance, BorrowedSafety, PTL
-----------------------------------------------------------------------------
(* Type correctness: no balance or counter of the program goes negative and  *)
(* the AMM price stays in its range, whatever amounts callers pass.          *)
THEOREM LendingTypeCorrect == LendingSpec => []LendingTypeOK
<1>1. LendingIInv => LendingTypeOK
    BY DEF LendingIInv
<1> QED
    BY <1>1, LendingInvariance, PTL

(* The lenders' token A is in the vault or owed by active positions, for     *)
(* every number of users and every price path.                               *)
THEOREM PrincipalSafety == LendingSpec => []PrincipalIsKept
<1>1. LendingIInv => PrincipalIsKept
    BY DEF LendingIInv
<1> QED
    BY <1>1, LendingInvariance, PTL

(* active_positions counts the active positions.                             *)
THEOREM PositionCount == LendingSpec => []ActivePositionsAreCounted
<1>1. LendingIInv => ActivePositionsAreCounted
    BY DEF LendingIInv
<1> QED
    BY <1>1, LendingInvariance, PTL

(* Every position, settled or not, records the price the user saw: it is     *)
(* read before the sale that the opening makes, and nothing rewrites it.     *)
EntryIsQuoted == \A u \in DOMAIN shorts : shorts[u].entry_sqrt_price = quoted[u]

LEMMA EntryStep ==
    ASSUME LendingTypeOK, EntryIsQuoted, [LendingNext]_lendingVars
    PROVE  EntryIsQuoted'
<1>1. CASE UNCHANGED <<shorts, quoted>>
    BY <1>1 DEF EntryIsQuoted
<1>2. ASSUME NEW u \in User, NEW c, NEW b, NEW m, OpenShort(u, c, b, m)
      PROVE  EntryIsQuoted'
    <2>1. PICK net :
            shorts' = [v \in DOMAIN shorts \cup {u} |->
                          IF v = u THEN NewShort(net, b, m, amm.sqrt_price) ELSE shorts[v]]
        BY <1>2 DEF OpenShort, EntrySqrtPrice
    <2>2. /\ quoted' = [v \in DOMAIN shorts \cup {u} |->
                            IF v = u THEN amm.sqrt_price ELSE quoted[v]]
        BY <1>2 DEF OpenShort
    <2>3. NewShort(net, b, m, amm.sqrt_price).entry_sqrt_price = amm.sqrt_price
        BY DEF NewShort
    <2> QED
        BY <2>1, <2>2, <2>3 DEF EntryIsQuoted
<1>3. ASSUME NEW u \in DOMAIN shorts, NEW status, quoted' = quoted,
             shorts' = [shorts EXCEPT ![u].status = status]
      PROVE  EntryIsQuoted'
    <2>1. shorts[u] \in ShortPosition
        BY DEF LendingTypeOK
    <2>2. [shorts[u] EXCEPT !.status = status].entry_sqrt_price = shorts[u].entry_sqrt_price
        BY <2>1 DEF ShortPosition
    <2> QED
        BY <1>3, <2>2 DEF EntryIsQuoted
<1>4. ASSUME NEW u \in User, NEW m, CloseShort(u, m)
      PROVE  EntryIsQuoted'
    BY <1>3, <1>4 DEF CloseShort
<1>5. ASSUME NEW u \in User, NEW l \in User, NEW m, Liquidate(u, l, m)
      PROVE  EntryIsQuoted'
    BY <1>3, <1>5 DEF Liquidate
<1>6. \/ UNCHANGED <<shorts, quoted>>
      \/ \E u \in User, c \in CollateralAmounts, b \in BorrowAmounts, m \in MinimumSolOuts :
            OpenShort(u, c, b, m)
      \/ \E u \in User, m \in MaxSolIns : CloseShort(u, m)
      \/ \E u, l \in User, m \in MaxSolIns : Liquidate(u, l, m)
    BY DEF LendingNext, LendingInstruction, AmmInstruction, InitializeLendingPool,
           DepositTokenA, AmmTrade, AmmSetPoolStatus, lendingVars
<1> QED
    BY <1>1, <1>2, <1>4, <1>5, <1>6

LEMMA EntryInvariance == LendingSpec => []EntryIsQuoted
<1>1. LendingInit => EntryIsQuoted
    BY DEF LendingInit, EntryIsQuoted
<1>2. LendingTypeOK /\ EntryIsQuoted /\ [LendingNext]_lendingVars => EntryIsQuoted'
    BY EntryStep
<1> QED
    BY <1>1, <1>2, LendingTypeCorrect, PTL DEF LendingSpec

(* A covered position is not liquidatable while the price is at or below the *)
(* recorded entry price: the two truncations of get_collateral_ratio only    *)
(* lower the value of the debt.                                              *)
LEMMA CoveredIsHealthy == LendingTypeOK /\ EntryIsQuoted => NoLiquidationWithoutPriceRise
<1> SUFFICES ASSUME LendingTypeOK, NEW u \in ActiveShorts,
                    amm.sqrt_price <= shorts[u].entry_sqrt_price,
                    (shorts[u].collateral_amount + shorts[u].sol_from_swap) * RATIO_SCALE
                        >= shorts[u].borrowed_amount * lendingPool.liquidation_threshold
             PROVE  ~IsLiquidatable(shorts[u], amm.sqrt_price)
    BY DEF NoLiquidationWithoutPriceRise, EntryIsQuoted, ActiveShorts
<1> DEFINE price     == amm.sqrt_price
           entry     == shorts[u].entry_sqrt_price
           borrowed  == shorts[u].borrowed_amount
           total     == shorts[u].collateral_amount + shorts[u].sol_from_swap
           threshold == lendingPool.liquidation_threshold
           ratio     == MulDivDown(price, RATIO_SCALE, entry)
           value     == MulDivDown(borrowed, ratio, RATIO_SCALE)
<1>1. /\ price \in Nat /\ entry \in Nat \ {0} /\ borrowed \in Nat /\ total \in Nat
      /\ threshold \in Nat
    BY PriceRangeAssumption DEF UsablePriceRange, LendingTypeOK, LendingPoolState, ShortPosition, ActiveShorts
<1>2. RATIO_SCALE \in Nat \ {0}
    BY LendingAssumption
<1>3. total * RATIO_SCALE >= borrowed * threshold /\ price <= entry
    OBVIOUS
<1> HIDE DEF price, entry, borrowed, total, threshold
<1>4. ratio \in Nat /\ ratio <= RATIO_SCALE
    <2>1. price * RATIO_SCALE <= RATIO_SCALE * entry
        BY <1>1, <1>2, <1>3
    <2>2. price * RATIO_SCALE \in Nat /\ RATIO_SCALE * entry \in Nat
        BY <1>1, <1>2
    <2>3. price * RATIO_SCALE <= RATIO_SCALE * entry + entry - 1
        BY <1>1, <2>1, <2>2
    <2> QED
        BY <1>1, <1>2, <2>2, <2>3, DivBound, MulDivDownType DEF MulDivDown
<1> HIDE DEF ratio
<1>5. value \in Nat /\ value <= borrowed
    BY <1>1, <1>2, <1>4, MulDivDownType, MulDivDownBound
<1> HIDE DEF value
<1>6. CASE value = 0
    BY <1>6 DEF IsLiquidatable, RatioIsBelow, BorrowedValue, value, ratio, price, entry, borrowed
<1>7. CASE value # 0
    <2>1. threshold * value <= borrowed * threshold
        BY <1>1, <1>5
    <2>2. /\ total * RATIO_SCALE \in Nat /\ threshold * value \in Nat
          /\ borrowed * threshold \in Nat
        BY <1>1, <1>2, <1>5
    <2>3. total * RATIO_SCALE >= threshold * value
        BY <1>3, <2>1, <2>2
    <2>4. MulDivDown(total, RATIO_SCALE, value) >= threshold
        BY <1>1, <1>5, <1>7, <2>2, <2>3, DivLowerBound DEF MulDivDown
    <2>5. MulDivDown(total, RATIO_SCALE, value) \in Nat
        BY <1>1, <1>2, <1>5, <1>7, MulDivDownType
    <2>6. ~(MulDivDown(total, RATIO_SCALE, value) < threshold)
        BY <1>1, <2>4, <2>5
    <2> QED
        BY <2>6 DEF IsLiquidatable, RatioIsBelow, BorrowedValue, value, ratio, price, entry,
                    borrowed, total, threshold
<1> QED
    BY <1>6, <1>7

(* A covered position is liquidated only after the price has risen above     *)
(* what it was before the position's own sale, for every scale, range and    *)
(* price path.                                                               *)
THEOREM HealthyShorts == LendingSpec => []NoLiquidationWithoutPriceRise
BY CoveredIsHealthy, EntryInvariance, LendingTypeCorrect, PTL

(* A settled position never changes again and no position account goes away. *)
THEOREM SettlementIsFinal == LendingSpec => SettledIsFinal
<1> DEFINE Final == \A u \in DOMAIN shorts :
                        /\ u \in DOMAIN shorts'
                        /\ shorts[u].status # Active => shorts'[u] = shorts[u]
<1>1. ASSUME [LendingNext]_lendingVars PROVE [Final]_lendingVars
    <2>1. CASE shorts' = shorts
        BY <2>1
    <2>2. ASSUME NEW u \in User, NEW c \in CollateralAmounts, NEW b \in BorrowAmounts,
                 NEW m \in MinimumSolOuts, OpenShort(u, c, b, m)
          PROVE  Final
        BY <2>2 DEF OpenShort
    <2>3. ASSUME NEW u \in User, NEW m \in MaxSolIns, CloseShort(u, m)
          PROVE  Final
        BY <2>3 DEF CloseShort, CanSettleShort
    <2>4. ASSUME NEW u \in User, NEW l \in User, NEW m \in MaxSolIns, Liquidate(u, l, m)
          PROVE  Final
        BY <2>4 DEF Liquidate, CanSettleShort
    <2>5. \/ shorts' = shorts
          \/ \E u \in User, c \in CollateralAmounts, b \in BorrowAmounts, m \in MinimumSolOuts :
                OpenShort(u, c, b, m)
          \/ \E u \in User, m \in MaxSolIns : CloseShort(u, m)
          \/ \E u, l \in User, m \in MaxSolIns : Liquidate(u, l, m)
        BY <1>1 DEF LendingNext, LendingInstruction, AmmInstruction, InitializeLendingPool,
                    DepositTokenA, AmmTrade, AmmSetPoolStatus, lendingVars
    <2> QED
        BY <2>1, <2>2, <2>3, <2>4, <2>5
<1> QED
    BY <1>1, PTL DEF LendingSpec, SettledIsFinal
-----------------------------------------------------------------------------
(* The mapped loan book, per user.                                           *)
LEMMA LoanBookTypes ==
    ASSUME LendingTypeOK
    PROVE  /\ vault["a"] \in Nat
           /\ \A u \in DOMAIN shorts : LoanOf(u) = shorts[u].borrowed_amount /\ LoanOf(u) \in Nat
BY DEF LendingTypeOK, ShortPosition, LoanOf, Token

(* An opening is the borrower's only loan.                                   *)
LEMMA OpenIsLend ==
    ASSUME LendingTypeOK, NEW u \in User, NEW c \in Nat, NEW b \in Nat, NEW m \in Nat,
           OpenShort(u, c, b, m)
    PROVE  Loans!Lend(u)
<1>1. /\ u \notin DOMAIN shorts
      /\ vault["a"] >= b
      /\ vault' = [vault EXCEPT !["a"] = @ - b,
                                !["b"] = @ + c + AmmSwapResult(b, TRUE).output_amount]
      /\ \E net : shorts' = [v \in DOMAIN shorts \cup {u} |->
                                IF v = u THEN NewShort(net, b, m, amm.sqrt_price) ELSE shorts[v]]
    BY DEF OpenShort, EntrySqrtPrice
<1>2. PICK net : shorts' = [v \in DOMAIN shorts \cup {u} |->
                                IF v = u THEN NewShort(net, b, m, amm.sqrt_price) ELSE shorts[v]]
    BY <1>1
<1>3. vault["a"] \in Nat /\ vault'["a"] = vault["a"] - b
    BY <1>1 DEF LendingTypeOK, Token
<1>4. DOMAIN shorts' = DOMAIN shorts \cup {u}
    BY <1>2
<1>5. shorts'[u] = NewShort(net, b, m, amm.sqrt_price)
    BY <1>2
<1>6. \A v \in DOMAIN shorts : shorts'[v] = shorts[v]
    BY <1>1, <1>2
<1>7. StandingOf(u) = "none" /\ StandingOf(u)' = "owed" /\ LoanOf(u)' = b
    BY <1>1, <1>4, <1>5 DEF StandingOf, LoanOf, ActiveShorts, NewShort
<1>8. \A v \in User \ {u} : StandingOf(v)' = StandingOf(v) /\ LoanOf(v)' = LoanOf(v)
    BY <1>4, <1>6 DEF StandingOf, LoanOf, ActiveShorts
<1>9. vault'["a"] \in 0 .. vault["a"] /\ vault["a"] - vault'["a"] = b
    BY <1>1, <1>3
<1> QED
    BY <1>7, <1>8, <1>9 DEF Loans!Lend

(* Closing and liquidating are one settlement that brings back the loan.     *)
LEMMA SettlementIsSettle ==
    ASSUME LendingTypeOK, NEW u \in DOMAIN shorts, NEW output \in Nat,
           NEW status \in {Closed, Liquidated},
           CanSettleShort(u), output >= shorts[u].borrowed_amount,
           vault'["a"] = vault["a"] + output,
           shorts' = [shorts EXCEPT ![u].status = status]
    PROVE  Loans!Settle(u)
<1>1. u \in User /\ shorts[u] \in ShortPosition /\ shorts[u].status = Active
    BY DEF LendingTypeOK, CanSettleShort
<1>2. DOMAIN shorts' = DOMAIN shorts
    OBVIOUS
<1>3. shorts'[u].status # Active /\ shorts'[u].borrowed_amount = shorts[u].borrowed_amount
    BY <1>1 DEF ShortPosition, Active, Closed, Liquidated
<1>4. \A v \in DOMAIN shorts \ {u} : shorts'[v] = shorts[v]
    OBVIOUS
<1>5. StandingOf(u) = "owed" /\ StandingOf(u)' = "settled" /\ LoanOf(u)' = LoanOf(u)
    BY <1>1, <1>2, <1>3 DEF StandingOf, LoanOf, ActiveShorts
<1>6. \A v \in User \ {u} : StandingOf(v)' = StandingOf(v) /\ LoanOf(v)' = LoanOf(v)
    BY <1>2, <1>4 DEF StandingOf, LoanOf, ActiveShorts
<1>7. vault'["a"] \in Nat /\ vault'["a"] >= vault["a"] + LoanOf(u)
    BY LoanBookTypes
<1> QED
    BY <1>1, <1>5, <1>6, <1>7 DEF Loans!Settle

LEMMA LoanBookStep ==
    LendingIInv /\ [LendingNext]_lendingVars => [Loans!LoanNext]_(Loans!loanVars)
<1> SUFFICES ASSUME LendingIInv, [LendingNext]_lendingVars
             PROVE  Loans!LoanNext \/ UNCHANGED Loans!loanVars
    OBVIOUS
<1>1. LendingTypeOK
    BY DEF LendingIInv
<1>2. CASE UNCHANGED <<vault, shorts>>
    BY <1>2 DEF Loans!loanVars, LoanOf, StandingOf, ActiveShorts
<1>3. ASSUME NEW amount \in DepositAmounts, DepositTokenA(amount)
      PROVE  Loans!Supply
    <2>1. amount \in Nat /\ vault["a"] \in Nat /\ vault'["a"] = vault["a"] + amount
        BY <1>1, <1>3, InputTypes DEF DepositTokenA, LendingTypeOK, Token
    <2> QED
        BY <1>3, <2>1 DEF Loans!Supply, DepositTokenA, LoanOf, StandingOf, ActiveShorts
<1>4. ASSUME NEW u \in User, NEW c \in CollateralAmounts, NEW b \in BorrowAmounts,
             NEW m \in MinimumSolOuts, OpenShort(u, c, b, m)
      PROVE  Loans!Lend(u)
    BY <1>1, <1>4, InputTypes, OpenIsLend
<1>5. ASSUME NEW u \in User, NEW m \in MaxSolIns, CloseShort(u, m)
      PROVE  Loans!Settle(u)
    <2> DEFINE result == AmmSwapResult(m, FALSE)
    <2>1. /\ u \in DOMAIN shorts
          /\ CanSettleShort(u)
          /\ AmmAccepts(m, result, FALSE, shorts[u].borrowed_amount)
          /\ vault' = [vault EXCEPT !["a"] = @ + result.output_amount,
                                    !["b"] = @ - shorts[u].collateral_amount]
          /\ shorts' = [shorts EXCEPT ![u].status = Closed]
        BY <1>5 DEF CloseShort
    <2>2. result.output_amount \in Nat /\ result.output_amount >= shorts[u].borrowed_amount
        BY <1>1, <2>1, AmmSwapType, InputTypes DEF AmmAccepts
    <2> HIDE DEF result
    <2>3. vault'["a"] = vault["a"] + result.output_amount
        BY <1>1, <2>1 DEF LendingTypeOK, Token
    <2> QED
        BY <1>1, <2>1, <2>2, <2>3, SettlementIsSettle
<1>6. ASSUME NEW u \in User, NEW l \in User, NEW m \in MaxSolIns, Liquidate(u, l, m)
      PROVE  Loans!Settle(u)
    <2> DEFINE result == AmmSwapResult(m, FALSE)
    <2>1. /\ u \in DOMAIN shorts
          /\ CanSettleShort(u)
          /\ AmmAccepts(m, result, FALSE, shorts[u].borrowed_amount)
          /\ vault' = [vault EXCEPT !["a"] = @ + result.output_amount,
                                    !["b"] = @ - m - LIQUIDATION_BONUS]
          /\ shorts' = [shorts EXCEPT ![u].status = Liquidated]
        BY <1>6 DEF Liquidate
    <2>2. result.output_amount \in Nat /\ result.output_amount >= shorts[u].borrowed_amount
        BY <1>1, <2>1, AmmSwapType, InputTypes DEF AmmAccepts
    <2> HIDE DEF result
    <2>3. vault'["a"] = vault["a"] + result.output_amount
        BY <1>1, <2>1 DEF LendingTypeOK, Token
    <2> QED
        BY <1>1, <2>1, <2>2, <2>3, SettlementIsSettle
<1>7. \/ UNCHANGED <<vault, shorts>>
      \/ \E amount \in DepositAmounts : DepositTokenA(amount)
      \/ \E u \in User, c \in CollateralAmounts, b \in BorrowAmounts, m \in MinimumSolOuts :
            OpenShort(u, c, b, m)
      \/ \E u \in User, m \in MaxSolIns : CloseShort(u, m)
      \/ \E u, l \in User, m \in MaxSolIns : Liquidate(u, l, m)
    BY DEF LendingNext, LendingInstruction, AmmInstruction, InitializeLendingPool, AmmTrade,
           AmmSetPoolStatus, lendingVars
<1> QED
    BY <1>2, <1>3, <1>4, <1>5, <1>6, <1>7 DEF Loans!LoanNext

(* The lending pool implements the loan book, for every number of users,     *)
(* every amount and every price path: token A leaves the vault only as a     *)
(* user's first loan and each settlement brings back at least that loan.     *)
THEOREM LoanBookRefinement == LendingSpec => ImplementsLoanBook
<1>1. LendingInit => Loans!LoanInit
    <2> SUFFICES ASSUME LendingInit PROVE Loans!LoanInit
        OBVIOUS
    <2>1. vault = [t \in Token |-> 0] /\ shorts = [u \in {} |-> 0]
        BY DEF LendingInit
    <2>2. vault["a"] = 0
        BY <2>1 DEF Token
    <2>3. \A u \in User : u \notin DOMAIN shorts
        BY <2>1
    <2>4. \A u \in User : LoanOf(u) = 0 /\ StandingOf(u) = "none"
        BY <2>3 DEF LoanOf, StandingOf, ActiveShorts
    <2> QED
        BY <2>2, <2>4 DEF Loans!LoanInit
<1>2. LendingIInv /\ [LendingNext]_lendingVars => [Loans!LoanNext]_(Loans!loanVars)
    BY LoanBookStep
<1> QED
    BY <1>1, <1>2, LendingInvariance, PTL DEF LendingSpec, ImplementsLoanBook, Loans!LoanSpec
=============================================================================
