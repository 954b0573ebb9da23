---------------------------- MODULE PoolFactory ----------------------------
(***************************************************************************)
(* How cp-amm pools come into being: the configs, token badges and fee      *)
(* operators the admins keep, and the three instructions that create a pool *)
(* (from a static config, from a dynamic config, customizable), with the    *)
(* checks on fees, prices, mints and activation points.  Configs are closed *)
(* and created again at the same index while pools made from them live on.  *)
(* Pools are activated by the slot or by the timestamp; the two clocks run  *)
(* at their own pace.                                                       *)
(***************************************************************************)
EXTENDS FeeParameters, FiniteSets

CONSTANTS
    Key, NoKey, Admins,            \* wallets; NoKey is Pubkey::default
    Mint,                          \* mint addresses, ordered like their bytes
    MintInfo,                      \* token program and extensions of each mint
    QuoteMints,                    \* DEFAULT_QUOTE_MINTS
    ConfigIndex,
    MIN_SQRT_PRICE, MAX_SQRT_PRICE,
    BIN_STEP_BPS_DEFAULT, BIN_STEP_BPS_Q_DEFAULT, U24_MAX,
    BUFFER,                        \* SLOT_BUFFER and TIME_BUFFER: one hour
    JOIN_DIVISOR,                  \* 12: five minutes of an hour
    MAX_ACTIVATION_DURATION,       \* 31 days, by activation type
    NoPoint,                       \* no activation point was given
    \* what callers may pass to the instructions:
    StaticConfigParameters, CustomizableParameters, SqrtPrices, Liquidities, ActivationPoints

ActivationType == {"Slot", "Timestamp"}

CollectFeeModes == {"BothToken", "OnlyB"}

(* Parameters, config and pool hold the same fields; the percentages that    *)
(* the conversions add are constants of the program.                         *)
PoolFeeParameters == [base_fee : BaseFeeParameters, dynamic_fee : DynamicFeeParameters]

StaticConfigParameter ==
    [pool_fees : PoolFeeParameters, sqrt_min_price : Nat, sqrt_max_price : Nat,
     vault_config_key : Key \cup {NoKey}, pool_creator_authority : Key \cup {NoKey},
     activation_type : ActivationType, collect_fee_mode : STRING]

CustomizableParameter ==
    [pool_fees : PoolFeeParameters, sqrt_min_price : Nat, sqrt_max_price : Nat,
     has_alpha_vault : BOOLEAN, liquidity : Nat, sqrt_price : Nat,
     activation_type : ActivationType, collect_fee_mode : STRING]

ASSUME FactoryAssumption ==
    /\ NoKey \notin Key /\ Admins \subseteq Key
    /\ Mint \subseteq Nat /\ QuoteMints \subseteq Mint
    /\ MintInfo \in [Mint -> [kind : {"SplToken", "Token2022", "NativeMint2022"},
                              extensions : SUBSET STRING]]
    /\ MIN_SQRT_PRICE \in Nat \ {0} /\ MAX_SQRT_PRICE \in Nat
    /\ BIN_STEP_BPS_Q_DEFAULT \in Nat \ {0}
    /\ BUFFER \in [ActivationType -> Nat]
    /\ JOIN_DIVISOR \in Nat \ {0}
    /\ MAX_ACTIVATION_DURATION \in [ActivationType -> Nat]
    /\ NoPoint \notin Nat
    /\ StaticConfigParameters \subseteq StaticConfigParameter
    /\ CustomizableParameters \subseteq CustomizableParameter
    /\ SqrtPrices \subseteq Nat /\ Liquidities \subseteq Nat
    /\ ActivationPoints \subseteq Nat \cup {NoPoint}

VARIABLES
    clock,      \* Clock::get(): the slot and the timestamp
    configs,    \* the open Config accounts, by index
    badges,     \* mints with a TokenBadge account
    operators,  \* wallets with a ClaimFeeOperator account
    pools       \* the Pool accounts, by address; no instruction closes one

factoryVars == <<clock, configs, badges, operators, pools>>
-----------------------------------------------------------------------------
Open(accounts, address, account) ==
    [x \in DOMAIN accounts \cup {address} |-> IF x = address THEN account ELSE accounts[x]]

Close(accounts, address) == [x \in DOMAIN accounts \ {address} |-> accounts[x]]

IsSupportedMint(mint) ==
    \/ MintInfo[mint].kind = "SplToken"
    \/ /\ MintInfo[mint].kind = "Token2022"
       /\ MintInfo[mint].extensions
            \subseteq {"TransferFeeConfig", "MetadataPointer", "TokenMetadata"}

(* Both mints are supported or have a badge; the native mint of Token-2022   *)
(* is refused with an error of its own.                                      *)
MintsAreAdmitted(token_a_mint, token_b_mint) ==
    \A mint \in {token_a_mint, token_b_mint} :
        /\ MintInfo[mint].kind # "NativeMint2022"
        /\ IsSupportedMint(mint) \/ mint \in badges

ValidateQuoteToken(token_a_mint, token_b_mint, has_alpha_vault) ==
    /\ token_a_mint \notin QuoteMints
    /\ token_b_mint \notin QuoteMints => ~has_alpha_vault

ValidDynamicFee(dynamic_fee) ==
    dynamic_fee.enabled =>
        /\ dynamic_fee.bin_step = BIN_STEP_BPS_DEFAULT
        /\ dynamic_fee.bin_step_q = BIN_STEP_BPS_Q_DEFAULT
        /\ dynamic_fee.filter_period < dynamic_fee.decay_period
        /\ dynamic_fee.reduction_factor <= BASIS_POINT_MAX
        /\ dynamic_fee.variable_fee_control <= U24_MAX
        /\ dynamic_fee.max_volatility_accumulator <= U24_MAX

ValidPoolFees(pool_fees) ==
    /\ ValidBaseFee(pool_fees.base_fee)
    /\ ValidDynamicFee(pool_fees.dynamic_fee)

ValidPriceRange(sqrt_min_price, sqrt_max_price) ==
    /\ sqrt_min_price >= MIN_SQRT_PRICE
    /\ sqrt_max_price <= MAX_SQRT_PRICE
    /\ sqrt_min_price < sqrt_max_price
-----------------------------------------------------------------------------
MaxActivationPoint(type) == clock[type] + MAX_ACTIVATION_DURATION[type]

JoinBuffer(type) == BUFFER[type] \div JOIN_DIVISOR

(* The last point to join an alpha vault: before its trading window, which   *)
(* is the buffer before the activation point.                                *)
LastJoinPoint(type, activation_point) == activation_point - BUFFER[type] - JoinBuffer(type)

(* Mutant: a pool without a vault may be activated at any time to come.      *)
ValidActivation_Unlimited(type, has_alpha_vault, activation_point) ==
    IF has_alpha_vault
    THEN /\ activation_point # NoPoint
         /\ activation_point > clock[type]
         /\ activation_point - clock[type] \in BUFFER[type] .. MAX_ACTIVATION_DURATION[type]
         /\ LastJoinPoint(type, activation_point) - JoinBuffer(type) >= clock[type]
    ELSE activation_point # NoPoint => activation_point >= clock[type]

(* Mutant: the time to join is not subtracted.                               *)
ValidActivation_WithoutJoinTime(type, has_alpha_vault, activation_point) ==
    IF has_alpha_vault
    THEN /\ activation_point # NoPoint
         /\ activation_point > clock[type]
         /\ activation_point - clock[type] \in BUFFER[type] .. MAX_ACTIVATION_DURATION[type]
    ELSE activation_point # NoPoint =>
            activation_point \in clock[type] .. clock[type] + MAX_ACTIVATION_DURATION[type]

(* ActivationParams::validate.  With an alpha vault a point must be given    *)
(* and leave time to join; the subtractions are checked.                     *)
ValidActivation(type, has_alpha_vault, activation_point) ==
    IF has_alpha_vault
    THEN /\ activation_point # NoPoint
         /\ activation_point > clock[type]
         /\ activation_point - clock[type] \in BUFFER[type] .. MAX_ACTIVATION_DURATION[type]
         /\ LastJoinPoint(type, activation_point) - JoinBuffer(type) >= clock[type]
    ELSE activation_point # NoPoint =>
            activation_point \in clock[type] .. clock[type] + MAX_ACTIVATION_DURATION[type]

(* PermissionlessActionAccess: from when the alpha vault may swap, and       *)
(* whether everyone may by now.                                              *)
PreActivationPoint(pool) ==
    IF pool.activation_point >= BUFFER[pool.activation_type]
    THEN pool.activation_point - BUFFER[pool.activation_type]
    ELSE 0

AnyoneCanSwap(pool) == clock[pool.activation_type] >= pool.activation_point
-----------------------------------------------------------------------------
FactoryInit ==
    /\ clock = [type \in ActivationType |-> 0]
    /\ configs = [index \in {} |-> 0]
    /\ badges = {}
    /\ operators = {}
    /\ pools = [address \in {} |-> 0]

AdvanceClock(type) ==
    /\ clock' = [clock EXCEPT ![type] = @ + 1]
    /\ UNCHANGED <<configs, badges, operators, pools>>

AssertEqAdmin(signer) == signer \in Admins

HasAlphaVault(params) == params.vault_config_key # NoKey

(* Config::init_static_config and Config::init_dynamic_config.               *)
StaticConfig(params) == [config_type |-> "Static", parameters |-> params]

DynamicConfig(pool_creator_authority) ==
    [config_type |-> "Dynamic", pool_creator_authority |-> pool_creator_authority]

(* Mutant: the price range is not checked.                                   *)
CreateStaticConfig_AnyRange(signer, index, params) ==
    /\ AssertEqAdmin(signer)
    /\ index \notin DOMAIN configs
    /\ params.collect_fee_mode \in CollectFeeModes
    /\ ValidPoolFees(params.pool_fees)
    /\ ValidActivation(params.activation_type, HasAlphaVault(params),
                       MaxActivationPoint(params.activation_type))
    /\ configs' = Open(configs, index, StaticConfig(params))
    /\ UNCHANGED <<clock, badges, operators, pools>>

(* A static config is created only if a pool could be created from it now,   *)
(* with the latest activation point.                                         *)
CreateStaticConfig(signer, index, params) ==
    /\ AssertEqAdmin(signer)
    /\ index \notin DOMAIN configs
    /\ ValidPriceRange(params.sqrt_min_price, params.sqrt_max_price)
    /\ params.collect_fee_mode \in CollectFeeModes
    /\ ValidPoolFees(params.pool_fees)
    /\ ValidActivation(params.activation_type, HasAlphaVault(params),
                       MaxActivationPoint(params.activation_type))
    /\ configs' = Open(configs, index, StaticConfig(params))
    /\ UNCHANGED <<clock, badges, operators, pools>>

CreateDynamicConfig(signer, index, pool_creator_authority) ==
    /\ AssertEqAdmin(signer)
    /\ index \notin DOMAIN configs
    /\ pool_creator_authority # NoKey
    /\ configs' = Open(configs, index, DynamicConfig(pool_creator_authority))
    /\ UNCHANGED <<clock, badges, operators, pools>>

CloseConfig(signer, index) ==
    /\ AssertEqAdmin(signer)
    /\ index \in DOMAIN configs
    /\ configs' = Close(configs, index)
    /\ UNCHANGED <<clock, badges, operators, pools>>

CreateTokenBadge(signer, mint) ==
    /\ AssertEqAdmin(signer)
    /\ mint \notin badges
    /\ MintInfo[mint].kind # "NativeMint2022"
    /\ ~IsSupportedMint(mint)
    /\ badges' = badges \cup {mint}
    /\ UNCHANGED <<clock, configs, operators, pools>>

CloseTokenBadge(signer, mint) ==
    /\ AssertEqAdmin(signer)
    /\ mint \in badges
    /\ badges' = badges \ {mint}
    /\ UNCHANGED <<clock, configs, operators, pools>>

CreateClaimFeeOperator(signer, operator) ==
    /\ AssertEqAdmin(signer)
    /\ operator \notin operators
    /\ operators' = operators \cup {operator}
    /\ UNCHANGED <<clock, configs, badges, pools>>

CloseClaimFeeOperator(signer, operator) ==
    /\ AssertEqAdmin(signer)
    /\ operator \in operators
    /\ operators' = operators \ {operator}
    /\ UNCHANGED <<clock, configs, badges, pools>>
-----------------------------------------------------------------------------
(* Mutant: the seeds hold the mints in the order they were passed.           *)
PoolAddress_Unsorted(seed, token_a_mint, token_b_mint) ==
    <<seed, token_a_mint, token_b_mint>>

(* The seeds of a pool's address: the config ("cpool" without one) and the   *)
(* larger and the smaller mint.                                              *)
PoolAddress(seed, token_a_mint, token_b_mint) ==
    IF token_a_mint > token_b_mint THEN <<seed, token_a_mint, token_b_mint>>
                                   ELSE <<seed, token_b_mint, token_a_mint>>

ConfigSeed(index) == <<"pool", index>>

CustomizableSeed == <<"cpool">>

(* get_initialize_amounts: the first deposit holds something of either token.*)
DepositsSomething(sqrt_min_price, sqrt_max_price, sqrt_price, liquidity) ==
    \/ GetDeltaAmountAUp(sqrt_price, sqrt_max_price, liquidity) > 0
    \/ GetDeltaAmountBUp(sqrt_min_price, sqrt_price, liquidity) > 0

(* Pool::initialize, at an address that no pool has yet; the alpha vault is  *)
(* the account derived from vault_base and the pool.                         *)
OpenPool(seed, a_mint, b_mint, params, sqrt_price, liquidity, point, vault_base, partner) ==
    LET address == PoolAddress(seed, a_mint, b_mint)
    IN  /\ a_mint # b_mint
        /\ address \notin DOMAIN pools
        /\ pools' = Open(pools, address,
              [seed |-> seed, token_a_mint |-> a_mint, token_b_mint |-> b_mint,
               pool_fees |-> params.pool_fees,
               sqrt_min_price |-> params.sqrt_min_price, sqrt_max_price |-> params.sqrt_max_price,
               sqrt_price |-> sqrt_price, liquidity |-> liquidity,
               activation_type |-> params.activation_type,
               activation_point |-> IF point = NoPoint
                                    THEN clock[params.activation_type] ELSE point,
               collect_fee_mode |-> params.collect_fee_mode,
               vault_base |-> vault_base, partner |-> partner])
        /\ UNCHANGED <<clock, configs, badges, operators>>

(* The pool takes its parameters from a static config, which is public or    *)
(* the payer's.  The quote token is not validated here.                      *)
InitializePool(payer, index, a_mint, b_mint, sqrt_price, liquidity, point) ==
    /\ index \in DOMAIN configs
    /\ configs[index].config_type = "Static"
    /\ MintsAreAdmitted(a_mint, b_mint)
    /\ liquidity > 0
    /\ LET params == configs[index].parameters
       IN  /\ params.pool_creator_authority \in {NoKey, payer}
           /\ ValidActivation(params.activation_type, HasAlphaVault(params), point)
           /\ sqrt_price \in params.sqrt_min_price .. params.sqrt_max_price
           /\ DepositsSomething(params.sqrt_min_price, params.sqrt_max_price, sqrt_price, liquidity)
           /\ OpenPool(ConfigSeed(index), a_mint, b_mint, params, sqrt_price,
                       liquidity, point, params.vault_config_key,
                       params.pool_creator_authority)

(* InitializeCustomizablePoolParameters::validate and the checks that both   *)
(* instructions taking them share.                                           *)
CustomizableIsValid(params, token_a_mint, token_b_mint, activation_point) ==
    /\ ValidPriceRange(params.sqrt_min_price, params.sqrt_max_price)
    /\ params.sqrt_price \in params.sqrt_min_price .. params.sqrt_max_price
    /\ params.liquidity > 0
    /\ ValidPoolFees(params.pool_fees)
    /\ params.collect_fee_mode \in CollectFeeModes
    /\ ValidActivation(params.activation_type, params.has_alpha_vault, activation_point)
    /\ MintsAreAdmitted(token_a_mint, token_b_mint)
    /\ ValidateQuoteToken(token_a_mint, token_b_mint, params.has_alpha_vault)
    /\ DepositsSomething(params.sqrt_min_price, params.sqrt_max_price, params.sqrt_price,
                         params.liquidity)

VaultBase(params, payer) == IF params.has_alpha_vault THEN payer ELSE NoKey

InitializeCustomizablePool(payer, token_a_mint, token_b_mint, params, activation_point) ==
    /\ CustomizableIsValid(params, token_a_mint, token_b_mint, activation_point)
    /\ OpenPool(CustomizableSeed, token_a_mint, token_b_mint, params, params.sqrt_price,
                params.liquidity, activation_point, VaultBase(params, payer), NoKey)

(* The config's pool_creator_authority signs, and becomes the partner.       *)
InitializePoolWithDynamicConfig(payer, authority, index, a_mint, b_mint, params, point) ==
    /\ index \in DOMAIN configs
    /\ configs[index].config_type = "Dynamic"
    /\ configs[index].pool_creator_authority = authority
    /\ CustomizableIsValid(params, a_mint, b_mint, point)
    /\ OpenPool(ConfigSeed(index), a_mint, b_mint, params, params.sqrt_price,
                params.liquidity, point, VaultBase(params, payer), authority)
-----------------------------------------------------------------------------
AdminInstruction ==
    \E signer \in Key :
        \/ \E index \in ConfigIndex :
              \/ \E params \in StaticConfigParameters : CreateStaticConfig(signer, index, params)
              \/ \E authority \in Key \cup {NoKey} : CreateDynamicConfig(signer, index, authority)
              \/ CloseConfig(signer, index)
        \/ \E mint \in Mint : CreateTokenBadge(signer, mint) \/ CloseTokenBadge(signer, mint)
        \/ \E operator \in Key :
              \/ CreateClaimFeeOperator(signer, operator)
              \/ CloseClaimFeeOperator(signer, operator)

CreatorInstruction ==
    \E payer \in Key, token_a_mint, token_b_mint \in Mint, point \in ActivationPoints :
        \/ \E index \in ConfigIndex, sqrt_price \in SqrtPrices, liquidity \in Liquidities :
              InitializePool(payer, index, token_a_mint, token_b_mint, sqrt_price, liquidity, point)
        \/ \E params \in CustomizableParameters :
              InitializeCustomizablePool(payer, token_a_mint, token_b_mint, params, point)
        \/ \E index \in ConfigIndex, authority \in Key, params \in CustomizableParameters :
              InitializePoolWithDynamicConfig(payer, authority, index, token_a_mint, token_b_mint,
                                              params, point)

FactoryNext ==
    \/ \E type \in ActivationType : AdvanceClock(type)
    \/ AdminInstruction
    \/ CreatorInstruction

FactorySpec == FactoryInit /\ [][FactoryNext]_factoryVars

(* Slots and seconds go on passing.  Nobody has to create anything.          *)
FactoryFairness == \A type \in ActivationType : WF_factoryVars(AdvanceClock(type))

FairFactorySpec == FactorySpec /\ FactoryFairness
-----------------------------------------------------------------------------
(* Every pool satisfies what the swap, fee and liquidity code assumes of its *)
(* pool: valid fees and fee mode, a price range inside the global one with   *)
(* the price in it, some liquidity.  It holds for all three ways to create   *)
(* one, also when its config was closed or replaced since: a pool copied     *)
(* from a config relies on the checks made when the config was created.      *)
PoolsAreSound ==
    \A address \in DOMAIN pools :
        LET pool == pools[address]
        IN  /\ ValidPoolFees(pool.pool_fees)
            /\ pool.collect_fee_mode \in CollectFeeModes
            /\ ValidPriceRange(pool.sqrt_min_price, pool.sqrt_max_price)
            /\ pool.sqrt_price \in pool.sqrt_min_price .. pool.sqrt_max_price
            /\ pool.liquidity > 0

(* There is one pool per config and pair of mints, and one customizable pool *)
(* per pair, in whichever order the mints were passed and however often the  *)
(* config was closed and created again.                                      *)
OnePoolPerPair ==
    \A p, q \in DOMAIN pools :
        /\ pools[p].seed = pools[q].seed
        /\ {pools[p].token_a_mint, pools[p].token_b_mint}
              = {pools[q].token_a_mint, pools[q].token_b_mint}
        => p = q

(* When a pool with an alpha vault is created nobody can swap in it yet, and *)
(* after the five minutes to join the vault still cannot: the window that    *)
(* ActivationParams::validate reserves is the one that can_swap opens.       *)
VaultWindowIsAhead ==
    [][\A address \in DOMAIN pools' \ DOMAIN pools :
          LET pool == pools'[address]
          IN  pool.vault_base # NoKey =>
                  /\ ~AnyoneCanSwap(pool)
                  /\ clock[pool.activation_type] + 2 * JoinBuffer(pool.activation_type)
                        <= PreActivationPoint(pool)
                  /\ pool.activation_point - PreActivationPoint(pool)
                        = BUFFER[pool.activation_type]]_factoryVars

PoolExists(address) == address \in DOMAIN pools

PoolIsActivated(address) == address \in DOMAIN pools /\ AnyoneCanSwap(pools[address])

(* "Prevent creation of forever untradable pool": every pool is activated,   *)
(* by the clock it goes by, in the end.                                      *)
EveryPoolIsActivated ==
    \A seed \in {CustomizableSeed} \cup {ConfigSeed(index) : index \in ConfigIndex},
       mints \in {pair \in Mint \X Mint : pair[1] > pair[2]} :
        PoolExists(<<seed, mints[1], mints[2]>>)
            ~> PoolIsActivated(<<seed, mints[1], mints[2]>>)
=============================================================================
