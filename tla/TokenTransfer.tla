--------------------------- MODULE TokenTransfer ---------------------------
(***************************************************************************)
(* Moving a Token-2022 mint with a transfer fee in and out of a pool vault  *)
(* (utils/token.rs and the transfers of the instructions).  The token       *)
(* program withholds the fee of the current epoch from what the receiver    *)
(* gets; the mint's authority changes the fee at any time, in force two     *)
(* epochs later.  The pool books amounts net of the fee it computes itself, *)
(* and the vault must hold what was booked.                                 *)
(***************************************************************************)
EXTENDS Curve

CONSTANTS
    MAX_FEE_BASIS_POINTS,   \* 10_000: the whole amount
    TransferFees,           \* the fees a mint's authority may set
    Amounts,                \* what the pool asks for and pays, and what callers pass
    MaxEpoch, MaxVault      \* bounds of the instance

TransferFee == [transfer_fee_basis_points : 0 .. MAX_FEE_BASIS_POINTS, maximum_fee : Nat]

ASSUME TransferAssumption ==
    /\ MAX_FEE_BASIS_POINTS \in Nat \ {0}
    /\ TransferFees \subseteq TransferFee
    /\ Amounts \subseteq Nat
    /\ MaxEpoch \in Nat /\ MaxVault \in Nat

VARIABLES
    epoch,    \* Clock::get().epoch
    mint,     \* the mint's TransferFeeConfig: the older and the newer fee, and from when the newer applies
    vault,    \* balance of the pool's vault
    booked    \* what the pool counts as received and not yet paid

transferVars == <<epoch, mint, vault, booked>>
-----------------------------------------------------------------------------
(* The token program: get_epoch_fee, calculate_fee, calculate_inverse_fee.   *)
GetEpochTransferFee == IF epoch >= mint.newer_epoch THEN mint.newer ELSE mint.older

CalculateFee(fee, amount) ==
    CapAt(MulDivUp(amount, fee.transfer_fee_basis_points, MAX_FEE_BASIS_POINTS), fee.maximum_fee)

PreFeeAmount(fee, excluded) ==
    excluded + CapAt(MulDivUp(excluded, MAX_FEE_BASIS_POINTS,
                              MAX_FEE_BASIS_POINTS - fee.transfer_fee_basis_points) - excluded,
                     fee.maximum_fee)

CalculateInverseFee(fee, excluded) == CalculateFee(fee, PreFeeAmount(fee, excluded))

(* What a transfer of amount delivers.                                       *)
Delivered(amount) == amount - CalculateFee(GetEpochTransferFee, amount)
-----------------------------------------------------------------------------
CalculateTransferFeeExcludedAmount(included) ==
    included - CalculateFee(GetEpochTransferFee, included)

(* Mutant: the fee of the amount to arrive, not of the amount to send.       *)
InverseFee_OfNet(excluded) == CalculateFee(GetEpochTransferFee, excluded)

(* Mutant: the maximum fee is charged at every rate.                         *)
InverseFee_MaximumFee(excluded) == GetEpochTransferFee.maximum_fee

(* At a rate of 100 percent the fee is the maximum fee.                      *)
InverseFee(excluded) ==
    IF GetEpochTransferFee.transfer_fee_basis_points = MAX_FEE_BASIS_POINTS
    THEN GetEpochTransferFee.maximum_fee
    ELSE CalculateInverseFee(GetEpochTransferFee, excluded)

(* Mutant: the same, and nobody recomputes it.                               *)
CalculateTransferFeeIncludedAmount_FeeOfNet(excluded) ==
    IF excluded = 0 THEN 0 ELSE excluded + CalculateFee(GetEpochTransferFee, excluded)

CalculateTransferFeeIncludedAmount(excluded) ==
    IF excluded = 0 THEN 0 ELSE excluded + InverseFee(excluded)

(* The program recomputes the fee and fails with FeeInverseIsIncorrect.      *)
FeeInverseIsCorrect(excluded) ==
    excluded # 0 =>
        CalculateFee(GetEpochTransferFee, excluded + InverseFee(excluded)) = InverseFee(excluded)
-----------------------------------------------------------------------------
TransferInit ==
    /\ epoch = 0
    /\ mint \in [older : TransferFees, newer : TransferFees, newer_epoch : {0}]
    /\ mint.older = mint.newer
    /\ vault = 0
    /\ booked = 0

NextEpoch ==
    /\ epoch < MaxEpoch
    /\ epoch' = epoch + 1
    /\ UNCHANGED <<mint, vault, booked>>

(* The newer fee becomes the older one only if it is in force already.       *)
SetTransferFee(fee) ==
    /\ mint' = [older |-> IF epoch >= mint.newer_epoch THEN mint.newer ELSE mint.older,
                newer |-> fee, newer_epoch |-> epoch + 2]
    /\ UNCHANGED <<epoch, vault, booked>>

(* add_liquidity, initialize_pool and initialize_pool_with_dynamic_config:   *)
(* the pool needs amount, the caller is charged what brings it and accepts   *)
(* at most threshold (a pool's creator accepts anything).                    *)
PullExactly(amount, threshold) ==
    /\ FeeInverseIsCorrect(amount)
    /\ CalculateTransferFeeIncludedAmount(amount) <= threshold
    /\ vault' = vault + Delivered(CalculateTransferFeeIncludedAmount(amount))
    /\ vault' <= MaxVault
    /\ booked' = booked + amount
    /\ UNCHANGED <<epoch, mint>>

(* initialize_customizable_pool: at least one token of either mint proves    *)
(* that the payer holds it.                                                  *)
PullAtLeastOne(amount) ==
    LET total == CalculateTransferFeeIncludedAmount(amount)
    IN  /\ FeeInverseIsCorrect(amount)
        /\ vault' = vault + Delivered(IF total > 1 THEN total ELSE 1)
        /\ vault' <= MaxVault
        /\ booked' = booked + amount
        /\ UNCHANGED <<epoch, mint>>

(* swap and fund_reward: the caller names what is sent, the pool counts on   *)
(* what arrives.                                                             *)
PullSent(amount) ==
    /\ CalculateTransferFeeExcludedAmount(amount) > 0
    /\ vault' = vault + Delivered(amount)
    /\ vault' <= MaxVault
    /\ booked' = booked + CalculateTransferFeeExcludedAmount(amount)
    /\ UNCHANGED <<epoch, mint>>

(* remove_liquidity, swap output, claims: the vault pays amount, the fee is  *)
(* the receiver's, who accepts no less than minimum.                         *)
PayOut(amount, minimum) ==
    /\ amount <= booked
    /\ amount <= vault
    /\ CalculateTransferFeeExcludedAmount(amount) >= minimum
    /\ vault' = vault - amount
    /\ booked' = booked - amount
    /\ UNCHANGED <<epoch, mint>>

TransferNext ==
    \/ NextEpoch
    \/ \E fee \in TransferFees : SetTransferFee(fee)
    \/ \E amount \in Amounts :
          \/ \E threshold \in Amounts : PullExactly(amount, threshold)
          \/ PullAtLeastOne(amount)
          \/ PullSent(amount)
          \/ \E minimum \in Amounts : PayOut(amount, minimum)

TransferSpec == TransferInit /\ [][TransferNext]_transferVars
-----------------------------------------------------------------------------
(* The vault holds everything the pool has booked, whatever fee the mint's   *)
(* authority put in force between two instructions: the amount charged for   *)
(* a deposit brings what the deposit is worth, however the fee rounds.       *)
VaultHoldsBooked == vault >= booked

(* The check "We believe this should never happen": the inverse of the fee   *)
(* is always exact, so no deposit fails with FeeInverseIsIncorrect.          *)
InverseFeeIsExact == \A amount \in Amounts : FeeInverseIsCorrect(amount)

(* A depositor is charged the least amount that delivers what is asked.      *)
ChargesTheLeast ==
    \A amount \in Amounts :
        LET included == CalculateTransferFeeIncludedAmount(amount)
        IN  /\ Delivered(included) >= amount
            /\ \A less \in 0 .. included - 1 : Delivered(less) < amount
=============================================================================
