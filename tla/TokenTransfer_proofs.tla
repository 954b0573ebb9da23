------------------------ MODULE TokenTransfer_proofs ------------------------
(***************************************************************************)
(* For every fee a mint may have and every amount: the inverse of the       *)
(* transfer fee that the pool computes is exact, it is the least charge     *)
(* that brings the amount asked for, and the vault holds what the pool has  *)
(* booked, whenever the mint's authority changes the fee.                   *)
(***************************************************************************)
EXTENDS TokenTransfer, TLAPS

(* A quotient rounded up is the least number of divisors that cover the      *)
(* dividend.                                                                 *)
LEMMA RoundUp ==
    ASSUME NEW x \in Nat, NEW y \in Nat, NEW d \in Nat \ {0}
    PROVE  /\ MulDivUp(x, y, d) \in Nat
           /\ MulDivUp(x, y, d) * d >= x * y
           /\ MulDivUp(x, y, d) * d <= x * y + d - 1
<1> DEFINE z == x * y
<1>1. z \in Nat
    OBVIOUS
<1> DEFINE r == (z + d - 1) \div d
<1>2. r \in Nat /\ d * r <= z + d - 1 /\ z + d - 1 < d * (r + 1)
    <2> HIDE DEF z
    <2> QED BY <1>1
<1>3. d * (r + 1) = r * d + d /\ d * r = r * d /\ r * d \in Int
    <2> HIDE DEF r
    <2> QED BY <1>2
<1>4. MulDivUp(x, y, d) = r
    BY DEF MulDivUp
<1> HIDE DEF r, z
<1>5. r * d >= z /\ r * d <= z + d - 1
    BY <1>1, <1>2, <1>3
<1> QED
    BY <1>2, <1>4, <1>5 DEF z

LEMMA RoundUpAtLeast ==
    ASSUME NEW x \in Nat, NEW y \in Nat, NEW d \in Nat \ {0}, NEW q \in Nat,
           q * d <= x * y + d - 1
    PROVE  MulDivUp(x, y, d) >= q
<1> DEFINE r == MulDivUp(x, y, d)
<1>1. r \in Nat /\ r * d >= x * y
    BY RoundUp
<1> HIDE DEF r
<1>2. SUFFICES ASSUME r + 1 <= q PROVE FALSE
    BY <1>1 DEF r
<1>3. (r + 1) * d <= q * d
    BY <1>1, <1>2
<1>4. (r + 1) * d = r * d + d
    BY <1>1
<1>5. r * d \in Int /\ q * d \in Int /\ x * y \in Int
    BY <1>1
<1> QED
    BY <1>1, <1>3, <1>4, <1>5

LEMMA RoundUpAtMost ==
    ASSUME NEW x \in Nat, NEW y \in Nat, NEW d \in Nat \ {0}, NEW q \in Nat,
           x * y <= q * d
    PROVE  MulDivUp(x, y, d) <= q
<1> DEFINE r == MulDivUp(x, y, d)
<1>1. r \in Nat /\ r * d <= x * y + d - 1
    BY RoundUp
<1> HIDE DEF r
<1>2. SUFFICES ASSUME q + 1 <= r PROVE FALSE
    BY <1>1 DEF r
<1>3. (q + 1) * d <= r * d
    BY <1>1, <1>2
<1>4. (q + 1) * d = q * d + d
    OBVIOUS
<1>5. r * d \in Int /\ q * d \in Int /\ x * y \in Int
    BY <1>1
<1> QED
    BY <1>1, <1>3, <1>4, <1>5
-----------------------------------------------------------------------------
(* The fee withheld is at most what is sent.                                 *)
LEMMA FeeBound ==
    ASSUME NEW fee \in TransferFee, NEW amount \in Nat
    PROVE  CalculateFee(fee, amount) \in 0 .. amount
<1> DEFINE b == fee.transfer_fee_basis_points
           M == MAX_FEE_BASIS_POINTS
<1>1. /\ b \in Nat /\ M \in Nat \ {0} /\ b <= M
      /\ fee.maximum_fee \in Nat
    BY TransferAssumption DEF TransferFee
<1> HIDE DEF b, M
<1>2. amount * b <= amount * M
    BY <1>1
<1>3. MulDivUp(amount, b, M) \in Nat
    BY <1>1, RoundUp
<1>4. MulDivUp(amount, b, M) <= amount
    BY <1>1, <1>2, RoundUpAtMost
<1> QED
    BY <1>1, <1>3, <1>4 DEF CalculateFee, CapAt, b, M

(* The amount before the fee, at a rate below 100 percent: it covers what is *)
(* asked, its fee is exactly what it exceeds that by, and anything less      *)
(* brings too little.                                                        *)
LEMMA PreFeeIsExact ==
    ASSUME NEW fee \in TransferFee, NEW x \in Nat,
           fee.transfer_fee_basis_points # MAX_FEE_BASIS_POINTS
    PROVE  /\ PreFeeAmount(fee, x) \in Nat
           /\ PreFeeAmount(fee, x) >= x
           /\ CalculateFee(fee, PreFeeAmount(fee, x)) = PreFeeAmount(fee, x) - x
           /\ \A a \in 0 .. PreFeeAmount(fee, x) - 1 : a - CalculateFee(fee, a) < x
<1> DEFINE b == fee.transfer_fee_basis_points
           M == MAX_FEE_BASIS_POINTS
           m == fee.maximum_fee
           D == M - b
           P == MulDivUp(x, M, D)
           Q == PreFeeAmount(fee, x)
<1>1. /\ b \in Nat /\ M \in Nat \ {0} /\ b < M /\ m \in Nat
    BY TransferAssumption DEF TransferFee
<1>2. D \in Nat \ {0} /\ D <= M
    BY <1>1
<1>3. Q = x + CapAt(P - x, m)
    BY DEF PreFeeAmount
<1>4. \A a \in Nat : CalculateFee(fee, a) = CapAt(MulDivUp(a, b, M), m)
    BY DEF CalculateFee
<1>5. D = M - b
    OBVIOUS
<1> HIDE DEF D, Q, b, M, m
<1>6. P \in Nat /\ P * D >= x * M /\ P * D <= x * M + D - 1
    BY <1>1, <1>2, RoundUp
<1> HIDE DEF P
<1>7. P >= x
    <2>1. SUFFICES ASSUME P + 1 <= x PROVE FALSE
        BY <1>6
    <2>2. (P + 1) * D <= x * D
        BY <1>2, <1>6, <2>1
    <2>3. x * D <= x * M
        BY <1>1, <1>2
    <2>4. (P + 1) * D = P * D + D
        BY <1>2, <1>6
    <2>5. P * D \in Int /\ x * D \in Int /\ x * M \in Int
        BY <1>1, <1>2, <1>6
    <2> QED
        BY <1>2, <1>6, <2>2, <2>3, <2>4, <2>5
<1>8. Q \in Nat /\ Q >= x /\ Q <= P /\ Q - x <= m /\ (Q = P \/ Q - x = m)
    BY <1>1, <1>3, <1>6, <1>7 DEF CapAt
(* What is left of any amount after the rate, M times over.                  *)
<1>9. ASSUME NEW a \in Nat
      PROVE  /\ a * b = a * M - a * D
             /\ a * b \in Int /\ a * M \in Int /\ a * D \in Int
    <2>1. b = M - D /\ b \in Int /\ M \in Int /\ D \in Int
        BY <1>1, <1>2, <1>5
    <2>2. a * (M - D) = a * M - a * D
        BY <2>1
    <2> QED
        BY <2>1, <2>2
<1>10. ASSUME NEW a \in Nat, a >= x
       PROVE  (a - x) * M = a * M - x * M /\ x * M \in Int /\ (a - x) * M \in Int
    BY <1>1, <1>10
<1>11. CalculateFee(fee, Q) = Q - x
    <2> DEFINE c == MulDivUp(Q, b, M)
    <2>1. c \in Nat
        BY <1>1, <1>8, RoundUp
    <2>2. Q * D <= P * D
        BY <1>2, <1>6, <1>8
    <2>3. Q * D \in Int /\ P * D \in Int
        BY <1>2, <1>6, <1>8
    <2>4. Q * b = Q * M - Q * D /\ Q * b \in Int /\ Q * M \in Int
        BY <1>8, <1>9
    <2>5. (Q - x) * M = Q * M - x * M /\ x * M \in Int /\ (Q - x) * M \in Int
        BY <1>8, <1>10
    <2>6. (Q - x) * M <= Q * b + M - 1
        BY <1>1, <1>2, <1>6, <2>2, <2>3, <2>4, <2>5
    <2>7. Q - x \in Nat
        BY <1>8
    <2>8. c >= Q - x
        BY <1>1, <1>8, <2>6, <2>7, RoundUpAtLeast
    <2>9. CASE Q - x = m
        <3> HIDE DEF c
        <3>1. CapAt(c, m) = m
            BY <1>1, <2>1, <2>8, <2>9 DEF CapAt
        <3> QED
            BY <1>4, <1>8, <2>9, <3>1 DEF c
    <2>10. CASE Q = P
        <3>1. Q * b <= (Q - x) * M
            BY <1>1, <1>6, <2>3, <2>4, <2>5, <2>10
        <3>2. c <= Q - x
            BY <1>1, <1>8, <2>7, <3>1, RoundUpAtMost
        <3> HIDE DEF c
        <3>3. CapAt(c, m) = Q - x
            BY <1>1, <1>8, <2>1, <2>8, <3>2 DEF CapAt
        <3> QED
            BY <1>4, <1>8, <3>3 DEF c
    <2> QED
        BY <1>8, <2>9, <2>10
<1>12. ASSUME NEW a \in 0 .. Q - 1
       PROVE  a - CalculateFee(fee, a) < x
    <2> DEFINE c == MulDivUp(a, b, M)
    <2>0. a \in Nat /\ a + 1 <= Q /\ a + 1 <= P
        BY <1>6, <1>8, <1>12
    <2>1. c \in Nat
        BY <1>1, <2>0, RoundUp
    <2>2. CASE a < x
        <3> HIDE DEF c
        <3>1. CapAt(c, m) \in Nat
            BY <1>1, <2>1 DEF CapAt
        <3> QED
            BY <1>4, <2>0, <2>2, <3>1 DEF c
    <2>3. CASE a >= x
        <3>1. (a + 1) * D <= P * D
            BY <1>2, <1>6, <2>0
        <3>2. (a + 1) * D = a * D + D /\ P * D \in Int
            BY <1>2, <1>6, <2>0
        <3>3. a * b = a * M - a * D /\ a * b \in Int /\ a * M \in Int /\ a * D \in Int
            BY <1>9, <2>0
        <3>4. (a - x) * M = a * M - x * M /\ x * M \in Int /\ (a - x) * M \in Int
            BY <1>10, <2>0, <2>3
        <3>5. (a - x) * M + 1 <= a * b
            BY <1>2, <1>6, <3>1, <3>2, <3>3, <3>4
        <3>6. (a - x + 1) * M = (a - x) * M + M
            BY <1>1, <2>0
        <3>7. (a - x + 1) * M <= a * b + M - 1
            BY <1>1, <3>3, <3>4, <3>5, <3>6
        <3>8. a - x + 1 \in Nat
            BY <2>0, <2>3
        <3>9. c >= a - x + 1
            BY <1>1, <2>0, <3>7, <3>8, RoundUpAtLeast
        <3> HIDE DEF c
        <3>10. CapAt(c, m) >= a - x + 1 /\ CapAt(c, m) \in Nat
            BY <1>1, <1>8, <2>0, <2>1, <3>9 DEF CapAt
        <3> QED
            BY <1>4, <2>0, <3>10 DEF c
    <2> QED
        BY <2>0, <2>2, <2>3
<1> QED
    BY <1>8, <1>11, <1>12 DEF Q
-----------------------------------------------------------------------------
MintConfig == [older : TransferFee, newer : TransferFee, newer_epoch : Nat]

(* The clock, the mint and both balances have their types, and the vault     *)
(* holds what was booked: inductive.                                         *)
TransferInv ==
    /\ epoch \in Nat
    /\ mint \in MintConfig
    /\ vault \in Nat /\ booked \in Nat
    /\ VaultHoldsBooked

LEMMA EpochFeeType ==
    ASSUME mint \in MintConfig
    PROVE  GetEpochTransferFee \in TransferFee
BY DEF GetEpochTransferFee, MintConfig

(* The inverse of whatever fee is in force: exact at every rate, 100 percent *)
(* included, and the least.                                                  *)
LEMMA InverseFeeOfMint ==
    ASSUME mint \in MintConfig, NEW x \in Nat, x # 0
    PROVE  /\ InverseFee(x) \in Nat
           /\ CalculateFee(GetEpochTransferFee, x + InverseFee(x)) = InverseFee(x)
           /\ \A a \in 0 .. x + InverseFee(x) - 1 : Delivered(a) < x
<1> DEFINE fee == GetEpochTransferFee
           M == MAX_FEE_BASIS_POINTS
           m == fee.maximum_fee
<1>1. fee \in TransferFee /\ M \in Nat \ {0} /\ m \in Nat
    BY EpochFeeType, TransferAssumption DEF TransferFee
<1>2. CASE fee.transfer_fee_basis_points # M
    <2> DEFINE P == PreFeeAmount(fee, x)
    <2>1. /\ P \in Nat /\ P >= x
          /\ CalculateFee(fee, P) = P - x
          /\ \A a \in 0 .. P - 1 : a - CalculateFee(fee, a) < x
        BY <1>1, <1>2, PreFeeIsExact
    <2>2. InverseFee(x) = P - x
        BY <1>2, <2>1 DEF InverseFee, CalculateInverseFee
    <2> HIDE DEF P
    <2>3. x + InverseFee(x) = P /\ InverseFee(x) \in Nat
        BY <2>1, <2>2
    <2> QED
        BY <2>1, <2>2, <2>3 DEF Delivered
<1>3. CASE fee.transfer_fee_basis_points = M
    <2>1. InverseFee(x) = m
        BY <1>3 DEF InverseFee
    <2> HIDE DEF fee, m
    <2>2. ASSUME NEW a \in Nat PROVE CalculateFee(fee, a) = CapAt(a, m)
        <3>1. MulDivUp(a, M, M) <= a /\ MulDivUp(a, M, M) \in Nat
            BY <1>1, RoundUp, RoundUpAtMost
        <3>2. a * M <= a * M + M - 1
            <4>1. a * M \in Int
                BY <1>1
            <4> QED BY <1>1, <4>1
        <3>3. MulDivUp(a, M, M) >= a
            BY <1>1, <3>2, RoundUpAtLeast
        <3>4. MulDivUp(a, M, M) = a
            BY <3>1, <3>3
        <3> QED
            BY <1>3, <3>4 DEF CalculateFee, m
    <2>3. CalculateFee(fee, x + m) = m
        BY <1>1, <2>2 DEF CapAt
    <2>4. ASSUME NEW a \in 0 .. x + m - 1 PROVE a - CalculateFee(fee, a) < x
        BY <1>1, <2>2 DEF CapAt
    <2> QED
        BY <1>1, <2>1, <2>3, <2>4 DEF Delivered, fee
<1> QED
    BY <1>2, <1>3

(* What is charged for an amount brings that amount.                         *)
LEMMA IncludedIsExact ==
    ASSUME mint \in MintConfig, NEW x \in Nat
    PROVE  /\ FeeInverseIsCorrect(x)
           /\ CalculateTransferFeeIncludedAmount(x) \in Nat
           /\ Delivered(CalculateTransferFeeIncludedAmount(x)) = x
           /\ \A a \in 0 .. CalculateTransferFeeIncludedAmount(x) - 1 : Delivered(a) < x
<1>1. GetEpochTransferFee \in TransferFee
    BY EpochFeeType
<1>2. CASE x = 0
    <2>1. CalculateTransferFeeIncludedAmount(x) = 0
        BY <1>2 DEF CalculateTransferFeeIncludedAmount
    <2>2. CalculateFee(GetEpochTransferFee, 0) = 0
        <3>1. CalculateFee(GetEpochTransferFee, 0) \in 0 .. 0
            BY <1>1, FeeBound
        <3> QED BY <3>1
    <2> QED
        BY <1>2, <2>1, <2>2 DEF Delivered, FeeInverseIsCorrect
<1>3. CASE x # 0
    <2>1. CalculateTransferFeeIncludedAmount(x) = x + InverseFee(x)
        BY <1>3 DEF CalculateTransferFeeIncludedAmount
    <2>2. /\ InverseFee(x) \in Nat
          /\ CalculateFee(GetEpochTransferFee, x + InverseFee(x)) = InverseFee(x)
          /\ \A a \in 0 .. x + InverseFee(x) - 1 : Delivered(a) < x
        BY <1>3, InverseFeeOfMint
    <2> QED
        BY <2>1, <2>2 DEF Delivered, FeeInverseIsCorrect
<1> QED
    BY <1>2, <1>3

LEMMA DeliveredType ==
    ASSUME mint \in MintConfig, NEW amount \in Nat
    PROVE  Delivered(amount) \in Nat /\ Delivered(amount) <= amount
<1>1. CalculateFee(GetEpochTransferFee, amount) \in 0 .. amount
    BY EpochFeeType, FeeBound
<1> QED
    BY <1>1 DEF Delivered
-----------------------------------------------------------------------------
(* The invariant holds at all times: every way of moving tokens brings at    *)
(* least what is booked for it and takes no more than is written off.        *)
THEOREM TransferInvariance == TransferSpec => []TransferInv
<1>1. TransferInit => TransferInv
    <2> SUFFICES ASSUME TransferInit PROVE TransferInv
        OBVIOUS
    <2>1. mint \in MintConfig
        BY TransferAssumption DEF TransferInit, MintConfig
    <2> QED
        BY <2>1 DEF TransferInit, TransferInv, VaultHoldsBooked
<1>2. TransferInv /\ [TransferNext]_transferVars => TransferInv'
    <2> SUFFICES ASSUME TransferInv, [TransferNext]_transferVars PROVE TransferInv'
        OBVIOUS
    <2> USE DEF TransferInv, VaultHoldsBooked
    <2>1. CASE NextEpoch
        BY <2>1 DEF NextEpoch
    <2>2. ASSUME NEW fee \in TransferFees, SetTransferFee(fee) PROVE TransferInv'
        <3>1. fee \in TransferFee
            BY TransferAssumption
        <3>2. mint' \in MintConfig
            BY <2>2, <3>1 DEF SetTransferFee, MintConfig
        <3> QED
            BY <2>2, <3>2 DEF SetTransferFee
    <2>3. ASSUME NEW amount \in Amounts, NEW threshold \in Amounts,
                 PullExactly(amount, threshold)
          PROVE  TransferInv'
        <3>1. amount \in Nat
            BY TransferAssumption
        <3>2. Delivered(CalculateTransferFeeIncludedAmount(amount)) = amount
            BY <3>1, IncludedIsExact
        <3> QED
            BY <2>3, <3>1, <3>2 DEF PullExactly
    <2>4. ASSUME NEW amount \in Amounts, PullAtLeastOne(amount) PROVE TransferInv'
        <3> DEFINE total == CalculateTransferFeeIncludedAmount(amount)
        <3>1. amount \in Nat
            BY TransferAssumption
        <3>2. total \in Nat /\ Delivered(total) = amount
            BY <3>1, IncludedIsExact
        <3> DEFINE sent == IF total > 1 THEN total ELSE 1
        <3>3. CASE total > 1
            BY <2>4, <3>1, <3>2, <3>3 DEF PullAtLeastOne
        <3>4. CASE ~(total > 1)
            <4>1. Delivered(total) <= total /\ Delivered(total) \in Nat
                BY <3>2, DeliveredType
            <4>2. amount <= total /\ (total = 0 \/ total = 1)
                BY <3>2, <3>4, <4>1
            <4>3. Delivered(1) \in Nat
                BY DeliveredType
            <4>4. Delivered(1) >= amount
                BY <3>1, <3>2, <4>2, <4>3
            <4> QED
                BY <2>4, <3>1, <3>4, <4>3, <4>4 DEF PullAtLeastOne
        <3> QED
            BY <3>3, <3>4
    <2>5. ASSUME NEW amount \in Amounts, PullSent(amount) PROVE TransferInv'
        <3>1. amount \in Nat
            BY TransferAssumption
        <3>2. Delivered(amount) \in Nat
            BY <3>1, DeliveredType
        <3>3. CalculateTransferFeeExcludedAmount(amount) = Delivered(amount)
            BY DEF CalculateTransferFeeExcludedAmount, Delivered
        <3> QED
            BY <2>5, <3>2, <3>3 DEF PullSent
    <2>6. ASSUME NEW amount \in Amounts, NEW minimum \in Amounts, PayOut(amount, minimum)
          PROVE  TransferInv'
        <3>1. amount \in Nat
            BY TransferAssumption
        <3> QED
            BY <2>6, <3>1 DEF PayOut
    <2>7. CASE UNCHANGED transferVars
        BY <2>7 DEF transferVars
    <2> QED
        BY <2>1, <2>2, <2>3, <2>4, <2>5, <2>6, <2>7 DEF TransferNext
<1> QED
    BY <1>1, <1>2, PTL DEF TransferSpec

(* The vault holds everything the pool has booked, for every fee, amount and *)
(* change of the fee between two instructions.                               *)
THEOREM VaultSafety == TransferSpec => []VaultHoldsBooked
<1>1. TransferInv => VaultHoldsBooked
    BY DEF TransferInv
<1> QED
    BY <1>1, TransferInvariance, PTL

(* No deposit ever fails with FeeInverseIsIncorrect: the check of            *)
(* calculate_transfer_fee_included_amount cannot fail, whatever the fee.     *)
THEOREM InverseFeeSafety == TransferSpec => []InverseFeeIsExact
<1>1. TransferInv => InverseFeeIsExact
    BY TransferAssumption, IncludedIsExact DEF TransferInv, InverseFeeIsExact
<1> QED
    BY <1>1, TransferInvariance, PTL

(* A depositor is never charged more than it takes.                          *)
THEOREM ChargeSafety == TransferSpec => []ChargesTheLeast
<1>1. TransferInv => ChargesTheLeast
    <2> SUFFICES ASSUME TransferInv, NEW amount \in Amounts
                 PROVE  LET included == CalculateTransferFeeIncludedAmount(amount)
                        IN  /\ Delivered(included) >= amount
                            /\ \A less \in 0 .. included - 1 : Delivered(less) < amount
        BY DEF ChargesTheLeast
    <2>1. amount \in Nat
        BY TransferAssumption
    <2> QED
        BY <2>1, IncludedIsExact DEF TransferInv
<1> QED
    BY <1>1, TransferInvariance, PTL
=============================================================================
