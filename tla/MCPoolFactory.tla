--------------------------- MODULE MCPoolFactory ---------------------------
(***************************************************************************)
(* Bounded instances of PoolFactory.  MaxInstructions bounds the            *)
(* instructions of a behaviour, MaxClock how far each clock runs; pools are  *)
(* created until LastCreation, so that the clocks reach every activation     *)
(* point the program accepts.                                               *)
(***************************************************************************)
EXTENDS PoolFactory, TLC

CONSTANTS MaxInstructions, MaxClock, LastCreation, k1, k2

VARIABLE instructions

mcVars == <<factoryVars, instructions>>

MCInit == FactoryInit /\ instructions = 0

MCAdvanceClock(type) ==
    /\ clock[type] < MaxClock
    /\ AdvanceClock(type)
    /\ UNCHANGED instructions

MCInstruction ==
    /\ instructions < MaxInstructions
    /\ \A type \in ActivationType : clock[type] <= LastCreation
    /\ AdminInstruction \/ CreatorInstruction
    /\ instructions' = instructions + 1

(* The clocks reached their bound and nobody does anything more.             *)
Exhausted ==
    /\ \A type \in ActivationType : clock[type] = MaxClock
    /\ UNCHANGED mcVars

MCNext ==
    \/ \E type \in ActivationType : MCAdvanceClock(type)
    \/ MCInstruction
    \/ Exhausted

MCSpec ==
    /\ MCInit
    /\ [][MCNext]_mcVars
    /\ \A type \in ActivationType : WF_mcVars(MCAdvanceClock(type))
-----------------------------------------------------------------------------
Mints ==
    (1 :> [kind |-> "Token2022", extensions |-> {"TransferHook"}])
    @@ (2 :> [kind |-> "Token2022", extensions |-> {"TransferFeeConfig"}])
    @@ (3 :> [kind |-> "SplToken", extensions |-> {}])
    @@ (4 :> [kind |-> "NativeMint2022", extensions |-> {}])

OneHour == [type \in ActivationType |-> 2]

OneMonth == "Slot" :> 5 @@ "Timestamp" :> 4

NoDynamicFee ==
    [enabled |-> FALSE, bin_step |-> 0, bin_step_q |-> 0, filter_period |-> 0,
     decay_period |-> 0, reduction_factor |-> 0, max_volatility_accumulator |-> 0,
     variable_fee_control |-> 0]

VolatilityFee ==
    [enabled |-> TRUE, bin_step |-> 1, bin_step_q |-> 6, filter_period |-> 1,
     decay_period |-> 3, reduction_factor |-> 5, max_volatility_accumulator |-> 60,
     variable_fee_control |-> 1]

Fees(cliff, mode, dynamic_fee) ==
    [base_fee |-> [cliff_fee_numerator |-> cliff, mode |-> mode, number_of_period |-> 2,
                   period_frequency |-> 1, reduction_factor |-> 1],
     dynamic_fee |-> dynamic_fee]

ConfigOf(fees, min, max, vault, creator, type) ==
    [pool_fees |-> fees, sqrt_min_price |-> min, sqrt_max_price |-> max,
     vault_config_key |-> vault, pool_creator_authority |-> creator,
     activation_type |-> type, collect_fee_mode |-> "OnlyB"]

(* Public without a vault; private with a vault; a price range beyond the     *)
(* global one; fees that fall to zero.                                        *)
OfferedConfigs ==
    {ConfigOf(Fees(3, "Linear", NoDynamicFee), 32, 128, NoKey, NoKey, "Slot"),
     ConfigOf(Fees(4, "Exponential", VolatilityFee), 32, 64, k1, k2, "Timestamp"),
     ConfigOf(Fees(3, "Linear", NoDynamicFee), 16, 128, NoKey, NoKey, "Slot"),
     ConfigOf(Fees(2, "Linear", NoDynamicFee), 32, 128, NoKey, NoKey, "Slot")}

Customizable(fees, sqrt_price, has_alpha_vault, type, mode) ==
    [pool_fees |-> fees, sqrt_min_price |-> 32, sqrt_max_price |-> 128,
     has_alpha_vault |-> has_alpha_vault, liquidity |-> 1024, sqrt_price |-> sqrt_price,
     activation_type |-> type, collect_fee_mode |-> mode]

(* With and without a vault; a price out of range; an unknown fee mode.      *)
OfferedParameters ==
    {Customizable(Fees(3, "Linear", NoDynamicFee), 64, TRUE, "Slot", "BothToken"),
     Customizable(Fees(4, "Exponential", VolatilityFee), 128, FALSE, "Timestamp", "OnlyB"),
     Customizable(Fees(3, "Linear", NoDynamicFee), 16, FALSE, "Slot", "BothToken"),
     Customizable(Fees(3, "Linear", NoDynamicFee), 64, FALSE, "Slot", "OnlyA")}
=============================================================================
