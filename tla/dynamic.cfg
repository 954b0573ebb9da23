SPECIFICATION MCSpec
CONSTANTS
    ONE_Q = 64
    FEE_DENOMINATOR = 20
    MIN_FEE_NUMERATOR = 1
    MAX_FEE_NUMERATOR = 6
    BASIS_POINT_MAX = 10
    VARIABLE_FEE_SCALE = 1000
    EXPONENT_BITS = 3
    ProtocolFeePercent = 50
    ReferralFeePercent = 50
    PartnerFeePercent = 50
    HasPartner = FALSE
    CollectFeeMode = "OnlyB"
    BaseFee <- DecreasingBaseFee
    DynamicFee <- VolatilityFee
    ActivationPoint = 2
    PreActivationPoint = 1
    SqrtMinPrice = 32
    SqrtMaxPrice = 128
    NUM_REWARDS = 0
    REWARD_RATE_SCALE = 64
    SPLIT_POSITION_DENOMINATOR = 2
    Key = {admin}
    Admins = {admin}
    Creator = admin
    NoKey = nokey
    MaxVestingDuration = 10
    PositionId = {p1}
    VestingId = {}
    StartTime = 1
    MIN_REWARD_DURATION = 1
    MAX_REWARD_DURATION = 4
    InitialSqrtPrices = {64}
    LiquidityDeltas = {4096}
    AmountThresholds = {0}
    SwapAmounts = {5, 16}
    MinimumAmountsOut = {0}
    VestingParameterInputs <- NoVestings
    CliffPoints = {}
    PermanentLockAmounts = {}
    SplitNumerators <- NoSplits
    RewardDurations = {}
    FundingAmounts = {}
    MaxFeeClaims = {}
    MaxInstructions = 4
    MaxClock = 5
INVARIANTS
    VolatilityReferenceUsable
    QuoteMatchesSwap
    RoundTripNeverProfits
