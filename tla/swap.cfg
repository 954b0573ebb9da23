SPECIFICATION MCSpec
CONSTANTS
    ONE_Q = 64
    FEE_DENOMINATOR = 10
    MIN_FEE_NUMERATOR = 1
    MAX_FEE_NUMERATOR = 5
    BASIS_POINT_MAX = 10
    VARIABLE_FEE_SCALE = 100
    EXPONENT_BITS = 3
    ProtocolFeePercent = 50
    ReferralFeePercent = 50
    PartnerFeePercent = 50
    HasPartner = TRUE
    CollectFeeMode = "BothToken"
    BaseFee <- FlatBaseFee
    DynamicFee <- NoDynamicFee
    ActivationPoint = 1
    PreActivationPoint = 0
    SqrtMinPrice = 32
    SqrtMaxPrice = 128
    NUM_REWARDS = 0
    REWARD_RATE_SCALE = 64
    SPLIT_POSITION_DENOMINATOR = 2
    Key = {admin}
    Admins = {admin}
    Creator = admin
    NoKey = nokey
    MaxVestingDuration = 10
    PositionId = {p1, p2}
    VestingId = {}
    StartTime = 1
    MIN_REWARD_DURATION = 1
    MAX_REWARD_DURATION = 4
    InitialSqrtPrices = {64, 128}
    LiquidityDeltas = {1500}
    AmountThresholds = {0, 100}
    SwapAmounts = {3, 8}
    MinimumAmountsOut = {0}
    VestingParameterInputs <- NoVestings
    CliffPoints = {}
    PermanentLockAmounts = {}
    SplitNumerators <- EvenSplit
    RewardDurations = {}
    FundingAmounts = {}
    MaxFeeClaims = {0, 100}
    MaxInstructions = 6
    MaxClock = 1
SYMMETRY PositionSymmetry
INVARIANTS
    TypeOK
    VaultsCoverClaims
    CheckpointsBehind
    PriceInRange
    UnlockedLiquidityIsWithdrawable
PROPERTY EarnedFeesAreKept
