------------------------- MODULE PoolFactory_proofs -------------------------
(***************************************************************************)
(* For any number of keys, mints, configs and pools: every pool is sound    *)
(* however it was created, a pair has one pool per config, and the trading  *)
(* window of an alpha vault lies ahead when its pool is created.            *)
(***************************************************************************)
EXTENDS PoolFactory, TLAPS

(* What is checked of the parameters a pool takes from a static config.      *)
ParametersAreSound(params) ==
    /\ ValidPoolFees(params.pool_fees)
    /\ params.collect_fee_mode \in CollectFeeModes
    /\ ValidPriceRange(params.sqrt_min_price, params.sqrt_max_price)
    /\ params.activation_type \in ActivationType
    /\ params.pool_fees \in PoolFeeParameters
    /\ params.sqrt_min_price \in Nat /\ params.sqrt_max_price \in Nat

ConfigsAreSound ==
    \A index \in DOMAIN configs :
        configs[index].config_type = "Static" => ParametersAreSound(configs[index].parameters)

PoolIsSound(pool) ==
    /\ ValidPoolFees(pool.pool_fees)
    /\ pool.collect_fee_mode \in CollectFeeModes
    /\ ValidPriceRange(pool.sqrt_min_price, pool.sqrt_max_price)
    /\ pool.sqrt_price \in pool.sqrt_min_price .. pool.sqrt_max_price
    /\ pool.liquidity \in Nat \ {0}
    /\ pool.pool_fees \in PoolFeeParameters
    /\ pool.sqrt_min_price \in Nat /\ pool.sqrt_max_price \in Nat
    /\ pool.activation_type \in ActivationType
    /\ pool.activation_point \in Nat

(* A pool lives at the address its own seed and mints give.                  *)
IsAtItsAddress(address, pool) ==
    /\ pool.token_a_mint \in Mint /\ pool.token_b_mint \in Mint
    /\ address = PoolAddress(pool.seed, pool.token_a_mint, pool.token_b_mint)

FactoryInv ==
    /\ clock \in [ActivationType -> Nat]
    /\ ConfigsAreSound
    /\ \A address \in DOMAIN pools :
          PoolIsSound(pools[address]) /\ IsAtItsAddress(address, pools[address])

(* The address does not depend on the order of the mints.                    *)
LEMMA AddressIsSymmetric ==
    ASSUME NEW seed, NEW a \in Mint, NEW b \in Mint
    PROVE  PoolAddress(seed, a, b) = PoolAddress(seed, b, a)
<1>1. a \in Nat /\ b \in Nat
    BY FactoryAssumption
<1> QED
    BY <1>1 DEF PoolAddress
-----------------------------------------------------------------------------
(* A pool opened from sound parameters and a price in their range is sound,  *)
(* whichever instruction opens it.                                           *)
LEMMA OpenPoolIsSound ==
    ASSUME FactoryInv,
           NEW seed, NEW a \in Mint, NEW b \in Mint, NEW params, NEW price,
           NEW liquidity \in Nat, NEW point \in ActivationPoints, NEW vault_base, NEW partner,
           ParametersAreSound(params),
           price \in params.sqrt_min_price .. params.sqrt_max_price,
           liquidity > 0,
           OpenPool(seed, a, b, params, price, liquidity, point, vault_base, partner)
    PROVE  FactoryInv'
<1> DEFINE address == PoolAddress(seed, a, b)
           pool == [seed |-> seed, token_a_mint |-> a, token_b_mint |-> b,
                    pool_fees |-> params.pool_fees,
                    sqrt_min_price |-> params.sqrt_min_price,
                    sqrt_max_price |-> params.sqrt_max_price,
                    sqrt_price |-> price, liquidity |-> liquidity,
                    activation_type |-> params.activation_type,
                    activation_point |-> IF point = NoPoint
                                         THEN clock[params.activation_type] ELSE point,
                    collect_fee_mode |-> params.collect_fee_mode,
                    vault_base |-> vault_base, partner |-> partner]
<1>1. /\ pools' = Open(pools, address, pool)
      /\ UNCHANGED <<clock, configs>>
    BY DEF OpenPool
<1>2. PoolIsSound(pool)
    <2>1. pool.activation_type \in ActivationType /\ pool.activation_point \in Nat
        <3>1. clock[params.activation_type] \in Nat
            BY DEF FactoryInv, ParametersAreSound
        <3>2. point # NoPoint => point \in Nat
            BY FactoryAssumption
        <3> QED
            BY <3>1, <3>2 DEF ParametersAreSound
    <2>2. /\ pool.pool_fees = params.pool_fees
          /\ pool.sqrt_min_price = params.sqrt_min_price
          /\ pool.sqrt_max_price = params.sqrt_max_price
          /\ pool.collect_fee_mode = params.collect_fee_mode
          /\ pool.sqrt_price = price /\ pool.liquidity = liquidity
        OBVIOUS
    <2> HIDE DEF pool
    <2> QED
        BY <2>1, <2>2 DEF PoolIsSound, ParametersAreSound
<1>3. IsAtItsAddress(address, pool)
    BY DEF IsAtItsAddress
<1> HIDE DEF pool, address
<1>4. ASSUME NEW x \in DOMAIN pools'
      PROVE  PoolIsSound(pools'[x]) /\ IsAtItsAddress(x, pools'[x])
    <2>1. CASE x = address
        <3>1. pools'[x] = pool
            BY <1>1, <1>4, <2>1 DEF Open
        <3> QED
            BY <1>2, <1>3, <2>1, <3>1
    <2>2. CASE x # address
        <3>1. x \in DOMAIN pools /\ pools'[x] = pools[x]
            BY <1>1, <1>4, <2>2 DEF Open
        <3> QED
            BY <3>1 DEF FactoryInv
    <2> QED
        BY <2>1, <2>2
<1>5. ConfigsAreSound'
    BY <1>1 DEF FactoryInv, ConfigsAreSound, ParametersAreSound, ValidPoolFees, ValidBaseFee,
                ValidDynamicFee, ValidPriceRange
<1>6. \A x \in DOMAIN pools' : (PoolIsSound(pools[x]) /\ IsAtItsAddress(x, pools[x]))'
    BY <1>4
<1> QED
    BY <1>1, <1>5, <1>6 DEF FactoryInv

(* Steps that leave the pools alone and keep the configs sound.              *)
LEMMA PoolsUntouched ==
    ASSUME FactoryInv, clock' \in [ActivationType -> Nat], ConfigsAreSound', pools' = pools
    PROVE  FactoryInv'
BY DEF FactoryInv

LEMMA ConfigsUntouched ==
    ASSUME FactoryInv, configs' = configs
    PROVE  ConfigsAreSound'
BY DEF FactoryInv, ConfigsAreSound

(* Both instructions that take the pool's parameters from the caller check   *)
(* them all.                                                                 *)
LEMMA CustomizableIsSound ==
    ASSUME NEW params \in CustomizableParameters, NEW a, NEW b, NEW point,
           CustomizableIsValid(params, a, b, point)
    PROVE  /\ ParametersAreSound(params)
           /\ params.sqrt_price \in params.sqrt_min_price .. params.sqrt_max_price
           /\ params.liquidity > 0 /\ params.liquidity \in Nat
<1>1. params \in CustomizableParameter
    BY FactoryAssumption
<1>2. /\ params.activation_type \in ActivationType /\ params.pool_fees \in PoolFeeParameters
      /\ params.sqrt_min_price \in Nat /\ params.sqrt_max_price \in Nat
      /\ params.liquidity \in Nat
    BY <1>1 DEF CustomizableParameter
<1> QED
    BY <1>2 DEF CustomizableIsValid, ParametersAreSound
-----------------------------------------------------------------------------
LEMMA AdminKeepsInv ==
    ASSUME FactoryInv, AdminInstruction
    PROVE  FactoryInv'
<1>1. PICK signer \in Key :
        \/ \E index \in ConfigIndex :
              \/ \E params \in StaticConfigParameters : CreateStaticConfig(signer, index, params)
              \/ \E authority \in Key \cup {NoKey} : CreateDynamicConfig(signer, index, authority)
              \/ CloseConfig(signer, index)
        \/ \E mint \in Mint : CreateTokenBadge(signer, mint) \/ CloseTokenBadge(signer, mint)
        \/ \E operator \in Key :
              \/ CreateClaimFeeOperator(signer, operator)
              \/ CloseClaimFeeOperator(signer, operator)
    BY DEF AdminInstruction
<1>2. ASSUME NEW index \in ConfigIndex, NEW params \in StaticConfigParameters,
             CreateStaticConfig(signer, index, params)
      PROVE  FactoryInv'
    <2> DEFINE config == StaticConfig(params)
    <2>1. configs' = Open(configs, index, config) /\ UNCHANGED <<clock, pools>>
        BY <1>2 DEF CreateStaticConfig
    <2>2. params \in StaticConfigParameter
        BY FactoryAssumption
    <2>3. /\ params.activation_type \in ActivationType /\ params.pool_fees \in PoolFeeParameters
          /\ params.sqrt_min_price \in Nat /\ params.sqrt_max_price \in Nat
        BY <2>2 DEF StaticConfigParameter
    <2>4. ParametersAreSound(params)
        BY <1>2, <2>3 DEF CreateStaticConfig, ParametersAreSound
    <2>5. config.parameters = params
        BY DEF StaticConfig
    <2> HIDE DEF config
    <2>6. ASSUME NEW x \in DOMAIN configs', configs'[x].config_type = "Static"
          PROVE  ParametersAreSound(configs'[x].parameters)
        <3>1. CASE x = index
            <4>1. configs'[x] = config
                BY <2>1, <2>6, <3>1 DEF Open
            <4> QED
                BY <2>4, <2>5, <4>1
        <3>2. CASE x # index
            <4>1. x \in DOMAIN configs /\ configs'[x] = configs[x]
                BY <2>1, <2>6, <3>2 DEF Open
            <4> QED
                BY <2>6, <4>1 DEF FactoryInv, ConfigsAreSound
        <3> QED
            BY <3>1, <3>2
    <2>7. ConfigsAreSound'
        BY <2>6 DEF ConfigsAreSound
    <2> QED
        BY <2>1, <2>7, PoolsUntouched DEF FactoryInv
<1>3. ASSUME NEW index \in ConfigIndex, NEW authority \in Key \cup {NoKey},
             CreateDynamicConfig(signer, index, authority)
      PROVE  FactoryInv'
    <2> DEFINE config == DynamicConfig(authority)
    <2>1. configs' = Open(configs, index, config) /\ UNCHANGED <<clock, pools>>
        BY <1>3 DEF CreateDynamicConfig
    <2>2. config.config_type # "Static"
        BY DEF DynamicConfig
    <2> HIDE DEF config
    <2>3. ASSUME NEW x \in DOMAIN configs', configs'[x].config_type = "Static"
          PROVE  ParametersAreSound(configs'[x].parameters)
        <3>1. CASE x = index
            <4>1. configs'[x] = config
                BY <2>1, <2>3, <3>1 DEF Open
            <4> QED
                BY <2>2, <2>3, <4>1
        <3>2. CASE x # index
            <4>1. x \in DOMAIN configs /\ configs'[x] = configs[x]
                BY <2>1, <2>3, <3>2 DEF Open
            <4> QED
                BY <2>3, <4>1 DEF FactoryInv, ConfigsAreSound
        <3> QED
            BY <3>1, <3>2
    <2>4. ConfigsAreSound'
        BY <2>3 DEF ConfigsAreSound
    <2> QED
        BY <2>1, <2>4, PoolsUntouched DEF FactoryInv
<1>4. ASSUME NEW index \in ConfigIndex, CloseConfig(signer, index)
      PROVE  FactoryInv'
    <2>1. configs' = Close(configs, index) /\ UNCHANGED <<clock, pools>>
        BY <1>4 DEF CloseConfig
    <2>2. ASSUME NEW x \in DOMAIN configs', configs'[x].config_type = "Static"
          PROVE  ParametersAreSound(configs'[x].parameters)
        <3>1. x \in DOMAIN configs /\ configs'[x] = configs[x]
            BY <2>1, <2>2 DEF Close
        <3> QED
            BY <2>2, <3>1 DEF FactoryInv, ConfigsAreSound
    <2>3. ConfigsAreSound'
        BY <2>2 DEF ConfigsAreSound
    <2> QED
        BY <2>1, <2>3, PoolsUntouched DEF FactoryInv
<1>5. ASSUME NEW mint \in Mint, CreateTokenBadge(signer, mint) \/ CloseTokenBadge(signer, mint)
      PROVE  FactoryInv'
    <2>1. UNCHANGED <<clock, configs, pools>>
        BY <1>5 DEF CreateTokenBadge, CloseTokenBadge
    <2> QED
        BY <2>1, ConfigsUntouched, PoolsUntouched DEF FactoryInv
<1>6. ASSUME NEW operator \in Key,
             CreateClaimFeeOperator(signer, operator) \/ CloseClaimFeeOperator(signer, operator)
      PROVE  FactoryInv'
    <2>1. UNCHANGED <<clock, configs, pools>>
        BY <1>6 DEF CreateClaimFeeOperator, CloseClaimFeeOperator
    <2> QED
        BY <2>1, ConfigsUntouched, PoolsUntouched DEF FactoryInv
<1> QED
    BY <1>1, <1>2, <1>3, <1>4, <1>5, <1>6

LEMMA CreatorKeepsInv ==
    ASSUME FactoryInv, CreatorInstruction
    PROVE  FactoryInv'
<1>1. PICK payer \in Key, a \in Mint, b \in Mint, point \in ActivationPoints :
        \/ \E index \in ConfigIndex, sqrt_price \in SqrtPrices, liquidity \in Liquidities :
              InitializePool(payer, index, a, b, sqrt_price, liquidity, point)
        \/ \E params \in CustomizableParameters :
              InitializeCustomizablePool(payer, a, b, params, point)
        \/ \E index \in ConfigIndex, authority \in Key, params \in CustomizableParameters :
              InitializePoolWithDynamicConfig(payer, authority, index, a, b, params, point)
    BY DEF CreatorInstruction
<1>2. ASSUME NEW index \in ConfigIndex, NEW sqrt_price \in SqrtPrices,
             NEW liquidity \in Liquidities,
             InitializePool(payer, index, a, b, sqrt_price, liquidity, point)
      PROVE  FactoryInv'
    <2>1. PICK params : params = configs[index].parameters
        OBVIOUS
    <2>2. /\ index \in DOMAIN configs /\ configs[index].config_type = "Static"
          /\ liquidity > 0
          /\ sqrt_price \in params.sqrt_min_price .. params.sqrt_max_price
          /\ OpenPool(ConfigSeed(index), a, b, params, sqrt_price, liquidity, point,
                      params.vault_config_key, params.pool_creator_authority)
        BY <1>2, <2>1 DEF InitializePool
    <2>3. ParametersAreSound(params)
        BY <2>1, <2>2 DEF FactoryInv, ConfigsAreSound
    <2>4. liquidity \in Nat
        BY FactoryAssumption
    <2> QED
        BY <2>2, <2>3, <2>4, OpenPoolIsSound
<1>3. ASSUME NEW params \in CustomizableParameters,
             InitializeCustomizablePool(payer, a, b, params, point)
      PROVE  FactoryInv'
    <2>1. /\ CustomizableIsValid(params, a, b, point)
          /\ OpenPool(CustomizableSeed, a, b, params, params.sqrt_price, params.liquidity, point,
                      VaultBase(params, payer), NoKey)
        BY <1>3 DEF InitializeCustomizablePool
    <2>2. /\ ParametersAreSound(params)
          /\ params.sqrt_price \in params.sqrt_min_price .. params.sqrt_max_price
          /\ params.liquidity > 0 /\ params.liquidity \in Nat
        BY <2>1, CustomizableIsSound
    <2> QED
        BY <2>1, <2>2, OpenPoolIsSound
<1>4. ASSUME NEW index \in ConfigIndex, NEW authority \in Key,
             NEW params \in CustomizableParameters,
             InitializePoolWithDynamicConfig(payer, authority, index, a, b, params, point)
      PROVE  FactoryInv'
    <2>1. /\ CustomizableIsValid(params, a, b, point)
          /\ OpenPool(ConfigSeed(index), a, b, params, params.sqrt_price, params.liquidity, point,
                      VaultBase(params, payer), authority)
        BY <1>4 DEF InitializePoolWithDynamicConfig
    <2>2. /\ ParametersAreSound(params)
          /\ params.sqrt_price \in params.sqrt_min_price .. params.sqrt_max_price
          /\ params.liquidity > 0 /\ params.liquidity \in Nat
        BY <2>1, CustomizableIsSound
    <2> QED
        BY <2>1, <2>2, OpenPoolIsSound
<1> QED
    BY <1>1, <1>2, <1>3, <1>4

(* Configs stay sound, and with them the pools created from them.            *)
THEOREM FactoryInvariance == FactorySpec => []FactoryInv
<1>1. FactoryInit => FactoryInv
    BY DEF FactoryInit, FactoryInv, ConfigsAreSound
<1>2. FactoryInv /\ [FactoryNext]_factoryVars => FactoryInv'
    <2> SUFFICES ASSUME FactoryInv, [FactoryNext]_factoryVars PROVE FactoryInv'
        OBVIOUS
    <2>1. ASSUME NEW type \in ActivationType, AdvanceClock(type) PROVE FactoryInv'
        <3>1. clock' \in [ActivationType -> Nat] /\ UNCHANGED <<configs, pools>>
            BY <2>1 DEF AdvanceClock, FactoryInv
        <3> QED
            BY <3>1, ConfigsUntouched, PoolsUntouched
    <2>2. CASE UNCHANGED factoryVars
        <3>1. UNCHANGED <<clock, configs, pools>>
            BY <2>2 DEF factoryVars
        <3> QED
            BY <3>1, ConfigsUntouched, PoolsUntouched DEF FactoryInv
    <2> QED
        BY <2>1, <2>2, AdminKeepsInv, CreatorKeepsInv DEF FactoryNext
<1> QED
    BY <1>1, <1>2, PTL DEF FactorySpec

(* Every pool satisfies what the swap, fee and liquidity code assumes of it, *)
(* for all three ways to create one and whatever became of its config.       *)
THEOREM PoolSafety == FactorySpec => []PoolsAreSound
<1>1. FactoryInv => PoolsAreSound
    BY DEF FactoryInv, PoolsAreSound, PoolIsSound
<1> QED
    BY <1>1, FactoryInvariance, PTL

(* What PoolFees, PoolSwap and CpAmm assume of the pool they are about, with *)
(* the parameters of a pool for their constants.                             *)
IsUsable(pool) ==
    /\ UsableFees(pool.pool_fees.base_fee, pool.pool_fees.dynamic_fee)
    /\ pool.collect_fee_mode \in CollectFeeModes
    /\ UsablePriceRange(pool.sqrt_min_price, pool.sqrt_max_price)
    /\ pool.sqrt_price \in pool.sqrt_min_price .. pool.sqrt_max_price
    /\ pool.liquidity \in Nat \ {0}
    /\ pool.activation_point \in Nat
    /\ PreActivationPoint(pool) \in 0 .. pool.activation_point

LEMMA SoundIsUsable ==
    ASSUME NEW pool, PoolIsSound(pool)
    PROVE  IsUsable(pool)
<1> DEFINE base == pool.pool_fees.base_fee
           dynamic == pool.pool_fees.dynamic_fee
           buffer == BUFFER[pool.activation_type]
<1>1. /\ ValidBaseFee(base) /\ ValidDynamicFee(dynamic)
      /\ base \in BaseFeeParameters /\ dynamic \in DynamicFeeParameters
    BY DEF PoolIsSound, ValidPoolFees, PoolFeeParameters
<1>2. UsableFees(base, dynamic)
    <2> HIDE DEF base, dynamic
    <2>1. dynamic.enabled =>
            /\ dynamic.bin_step_q > 0
            /\ dynamic.filter_period < dynamic.decay_period
            /\ dynamic.reduction_factor <= BASIS_POINT_MAX
        BY <1>1, FactoryAssumption DEF ValidDynamicFee
    <2> QED
        BY <1>1, <2>1 DEF UsableFees
<1>3. UsablePriceRange(pool.sqrt_min_price, pool.sqrt_max_price)
    BY FactoryAssumption DEF PoolIsSound, ValidPriceRange, UsablePriceRange
<1>4. PreActivationPoint(pool) \in 0 .. pool.activation_point
    <2>1. buffer \in Nat /\ pool.activation_point \in Nat
        BY FactoryAssumption DEF PoolIsSound
    <2> QED
        BY <2>1 DEF PreActivationPoint
<1> QED
    BY <1>2, <1>3, <1>4 DEF IsUsable, PoolIsSound

(* The three ways to create a pool establish what the AMM's specification    *)
(* takes for granted: every pool there will ever be meets the assumptions on *)
(* fees, prices and activation under which PoolFees, PoolSwap and CpAmm are  *)
(* proved correct, so their theorems are about all pools of the factory.     *)
THEOREM EveryPoolIsUsable ==
    FactorySpec => [](\A address \in DOMAIN pools : IsUsable(pools[address]))
<1>1. FactoryInv => \A address \in DOMAIN pools : IsUsable(pools[address])
    BY SoundIsUsable DEF FactoryInv
<1> QED
    BY <1>1, FactoryInvariance, PTL

(* There is one pool per config and pair of mints, in either order.          *)
THEOREM PairSafety == FactorySpec => []OnePoolPerPair
<1>1. FactoryInv => OnePoolPerPair
    <2> SUFFICES ASSUME FactoryInv, NEW p \in DOMAIN pools, NEW q \in DOMAIN pools,
                        pools[p].seed = pools[q].seed,
                        {pools[p].token_a_mint, pools[p].token_b_mint}
                            = {pools[q].token_a_mint, pools[q].token_b_mint}
                 PROVE  p = q
        BY DEF OnePoolPerPair
    <2>1. IsAtItsAddress(p, pools[p]) /\ IsAtItsAddress(q, pools[q])
        BY DEF FactoryInv
    <2>2. \/ /\ pools[p].token_a_mint = pools[q].token_a_mint
             /\ pools[p].token_b_mint = pools[q].token_b_mint
          \/ /\ pools[p].token_a_mint = pools[q].token_b_mint
             /\ pools[p].token_b_mint = pools[q].token_a_mint
        OBVIOUS
    <2> QED
        BY <2>1, <2>2, AddressIsSymmetric DEF IsAtItsAddress
<1> QED
    BY <1>1, FactoryInvariance, PTL
-----------------------------------------------------------------------------
VaultWindowOf(pool) ==
    pool.vault_base # NoKey =>
        /\ ~AnyoneCanSwap(pool)
        /\ clock[pool.activation_type] + 2 * JoinBuffer(pool.activation_type)
              <= PreActivationPoint(pool)
        /\ pool.activation_point - PreActivationPoint(pool) = BUFFER[pool.activation_type]

(* What ActivationParams::validate computes by subtraction is the window     *)
(* that can_swap opens: it never falls into the saturated case.              *)
LEMMA ValidActivationWindow ==
    ASSUME FactoryInv, NEW type \in ActivationType, NEW point \in ActivationPoints,
           ValidActivation(type, TRUE, point)
    PROVE  /\ point # NoPoint
           /\ clock[type] < point
           /\ point >= BUFFER[type]
           /\ clock[type] + 2 * JoinBuffer(type) <= point - BUFFER[type]
           /\ point - (point - BUFFER[type]) = BUFFER[type]
<1>1. clock[type] \in Nat /\ BUFFER[type] \in Nat /\ JOIN_DIVISOR \in Nat \ {0}
    BY FactoryAssumption DEF FactoryInv
<1>2. JoinBuffer(type) \in Nat
    BY <1>1 DEF JoinBuffer
<1>3. /\ point # NoPoint /\ point > clock[type]
      /\ point - BUFFER[type] - JoinBuffer(type) - JoinBuffer(type) >= clock[type]
    BY DEF ValidActivation, LastJoinPoint
<1>4. point \in Nat
    BY <1>3, FactoryAssumption
<1> QED
    BY <1>1, <1>2, <1>3, <1>4

LEMMA OpenPoolWindow ==
    ASSUME FactoryInv,
           NEW seed, NEW a, NEW b, NEW params, NEW price, NEW liquidity,
           NEW point \in ActivationPoints, NEW vault_base, NEW partner,
           params.activation_type \in ActivationType,
           vault_base # NoKey => ValidActivation(params.activation_type, TRUE, point),
           OpenPool(seed, a, b, params, price, liquidity, point, vault_base, partner),
           NEW address \in DOMAIN pools' \ DOMAIN pools
    PROVE  VaultWindowOf(pools'[address])
<1> DEFINE pool == pools'[address]
           type == params.activation_type
<1>1. /\ pool.vault_base = vault_base
      /\ pool.activation_type = type
      /\ point # NoPoint => pool.activation_point = point
    BY DEF OpenPool, Open
<1> HIDE DEF pool
<1>2. CASE vault_base # NoKey
    <2> HIDE DEF type
    <2>1. type \in ActivationType /\ ValidActivation(type, TRUE, point)
        BY <1>2 DEF type
    <2>2. /\ point # NoPoint
          /\ clock[type] < point
          /\ point >= BUFFER[type]
          /\ clock[type] + 2 * JoinBuffer(type) <= point - BUFFER[type]
          /\ point - (point - BUFFER[type]) = BUFFER[type]
        BY <2>1, ValidActivationWindow
    <2>3. pool.activation_point = point /\ pool.activation_type = type
        BY <1>1, <2>2
    <2>4. PreActivationPoint(pool) = point - BUFFER[type]
        BY <2>2, <2>3 DEF PreActivationPoint
    <2>5. clock[type] \in Nat /\ point \in Nat
        BY <2>1, <2>2, FactoryAssumption DEF FactoryInv
    <2>6. ~AnyoneCanSwap(pool)
        BY <2>2, <2>3, <2>5 DEF AnyoneCanSwap
    <2>7. VaultWindowOf(pool)
        BY <2>2, <2>3, <2>4, <2>6 DEF VaultWindowOf
    <2> QED
        BY <2>7 DEF pool
<1>3. CASE vault_base = NoKey
    <2>1. VaultWindowOf(pool)
        BY <1>1, <1>3 DEF VaultWindowOf
    <2> QED
        BY <2>1 DEF pool
<1> QED
    BY <1>2, <1>3

(* When a pool with an alpha vault is created its window is ahead, by the    *)
(* time to join, and as long as the buffer says: for every clock, duration   *)
(* and activation type.                                                      *)
THEOREM WindowSafety == FactorySpec => VaultWindowIsAhead
<1> DEFINE Ahead == \A address \in DOMAIN pools' \ DOMAIN pools : VaultWindowOf(pools'[address])
<1>1. ASSUME FactoryInv, FactoryNext PROVE Ahead
    <2>1. CASE CreatorInstruction
        <3>1. PICK payer \in Key, a \in Mint, b \in Mint, point \in ActivationPoints :
                \/ \E index \in ConfigIndex, sqrt_price \in SqrtPrices, liquidity \in Liquidities :
                      InitializePool(payer, index, a, b, sqrt_price, liquidity, point)
                \/ \E params \in CustomizableParameters :
                      InitializeCustomizablePool(payer, a, b, params, point)
                \/ \E index \in ConfigIndex, authority \in Key, params \in CustomizableParameters :
                      InitializePoolWithDynamicConfig(payer, authority, index, a, b, params, point)
            BY <2>1 DEF CreatorInstruction
        <3>2. ASSUME NEW index \in ConfigIndex, NEW sqrt_price \in SqrtPrices,
                     NEW liquidity \in Liquidities,
                     InitializePool(payer, index, a, b, sqrt_price, liquidity, point)
              PROVE  Ahead
            <4>1. PICK params : params = configs[index].parameters
                OBVIOUS
            <4>2. /\ index \in DOMAIN configs /\ configs[index].config_type = "Static"
                  /\ ValidActivation(params.activation_type, HasAlphaVault(params), point)
                  /\ OpenPool(ConfigSeed(index), a, b, params, sqrt_price, liquidity, point,
                              params.vault_config_key, params.pool_creator_authority)
                BY <3>2, <4>1 DEF InitializePool
            <4>3. params.activation_type \in ActivationType
                BY <1>1, <4>1, <4>2 DEF FactoryInv, ConfigsAreSound, ParametersAreSound
            <4>4. params.vault_config_key # NoKey =>
                    ValidActivation(params.activation_type, TRUE, point)
                BY <4>2 DEF ValidActivation, HasAlphaVault
            <4> QED
                BY <1>1, <4>2, <4>3, <4>4, OpenPoolWindow
        <3>3. ASSUME NEW params \in CustomizableParameters,
                     CustomizableIsValid(params, a, b, point)
              PROVE  /\ params.activation_type \in ActivationType
                     /\ VaultBase(params, payer) # NoKey =>
                            ValidActivation(params.activation_type, TRUE, point)
            <4>1. params \in CustomizableParameter
                BY FactoryAssumption
            <4>2. params.activation_type \in ActivationType /\ params.has_alpha_vault \in BOOLEAN
                BY <4>1 DEF CustomizableParameter
            <4> QED
                BY <3>3, <4>2 DEF CustomizableIsValid, VaultBase, ValidActivation
        <3>4. ASSUME NEW params \in CustomizableParameters,
                     InitializeCustomizablePool(payer, a, b, params, point)
              PROVE  Ahead
            BY <1>1, <3>3, <3>4, OpenPoolWindow DEF InitializeCustomizablePool
        <3>5. ASSUME NEW index \in ConfigIndex, NEW authority \in Key,
                     NEW params \in CustomizableParameters,
                     InitializePoolWithDynamicConfig(payer, authority, index, a, b, params, point)
              PROVE  Ahead
            BY <1>1, <3>3, <3>5, OpenPoolWindow DEF InitializePoolWithDynamicConfig
        <3> QED
            BY <3>1, <3>2, <3>4, <3>5
    <2>2. CASE AdminInstruction \/ \E type \in ActivationType : AdvanceClock(type)
        <3>1. pools' = pools
            BY <2>2 DEF AdminInstruction, AdvanceClock, CreateStaticConfig, CreateDynamicConfig,
                        CloseConfig, CreateTokenBadge, CloseTokenBadge, CreateClaimFeeOperator,
                        CloseClaimFeeOperator
        <3> QED
            BY <3>1
    <2> QED
        BY <1>1, <2>1, <2>2 DEF FactoryNext
<1>2. FactoryInv /\ [FactoryNext]_factoryVars => [Ahead]_factoryVars
    BY <1>1
<1>3. FactorySpec => [][Ahead]_factoryVars
    BY <1>2, FactoryInvariance, PTL DEF FactorySpec
<1> QED
    BY <1>3 DEF VaultWindowIsAhead, VaultWindowOf
=============================================================================
