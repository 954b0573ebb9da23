SPECIFICATION TransferSpec
CONSTANTS
    ONE_Q = 1
    MAX_FEE_BASIS_POINTS = 10
    TransferFees <- OfferedFees
    Amounts = {0, 1, 5, 7, 13, 40}
    MaxEpoch = 2
    MaxVault = 20
INVARIANTS
    VaultHoldsBooked
    InverseFeeIsExact
    ChargesTheLeast
