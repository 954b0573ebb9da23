SPECIFICATION MCSpec
CONSTANTS
    ONE_Q = 64
    FEE_DENOMINATOR = 20
    MIN_FEE_NUMERATOR = 1
    MAX_FEE_NUMERATOR = 10
    BASIS_POINT_MAX = 10
    VARIABLE_FEE_SCALE = 100
    EXPONENT_BITS = 3
    ProtocolFeePercent = 20
    ReferralFeePercent = 20
    PartnerFeePercent = 0
    HasPartner = FALSE
    CollectFeeMode = "BothToken"
    BaseFee <- FlatFee
    DynamicFee <- NoDynamicFee
    ActivationPoint = 0
    SqrtMinPrice = 32
    SqrtMaxPrice = 128
    User = {alice, bob}
    RATIO_SCALE = 10
    MAX_PROTOCOL_FEE_BPS = 1
    LIQUIDATION_BONUS = 2
    AmmLiquidity = 4096
    InitialSqrtPrices = {64}
    InitialWallet = 40
    LendingParameters <- OfferedParameters
    CollateralAmounts = {14, 24}
    BorrowAmounts = {10}
    MinimumSolOuts = {0, 6}
    MaxSolIns = {12, 20, 30}
    DepositAmounts = {15}
    TradeAmounts = {6, 60}
    MaxDeposited = 30
    MaxTrades = 3
SYMMETRY UserSymmetry
INVARIANTS
    LendingTypeOK
    ActivePositionsAreCounted
    BorrowedIsOwed
    PrincipalIsKept
    NoLiquidationWithoutPriceRise
PROPERTIES
    SettledIsFinal
    ImplementsLoanBook
