SPECIFICATION MCSpec
CONSTANTS
    ONE_Q = 64
    FEE_DENOMINATOR = 10
    MIN_FEE_NUMERATOR = 1
    MAX_FEE_NUMERATOR = 5
    BASIS_POINT_MAX = 10
    VARIABLE_FEE_SCALE = 100
    EXPONENT_BITS = 3
    ProtocolFeePercent = 50
    ReferralFeePercent = 50
    PartnerFeePercent = 50
    HasPartner = TRUE
    CollectFeeMode = "BothToken"
    BaseFee <- FlatBaseFee
    DynamicFee <- NoDynamicFee
    ActivationPoint = 0
    PreActivationPoint = 0
    SqrtMinPrice = 32
    SqrtMaxPrice = 128
    NUM_REWARDS = 1
    REWARD_RATE_SCALE = 64
    SPLIT_POSITION_DENOMINATOR = 2
    Key = {admin, funder}
    Admins = {admin}
    Creator = funder
    NoKey = nokey
    MaxVestingDuration = 10
    PositionId = {p1, p2}
    VestingId = {}
    StartTime = 0
    MIN_REWARD_DURATION = 1
    MAX_REWARD_DURATION = 4
    InitialSqrtPrices = {64}
    LiquidityDeltas = {4096}
    AmountThresholds = {0, 1000}
    SwapAmounts = {}
    MinimumAmountsOut = {0}
    VestingParameterInputs <- NoVestings
    CliffPoints = {}
    PermanentLockAmounts = {}
    SplitNumerators <- EvenSplit
    RewardDurations = {2, 3}
    FundingAmounts = {5}
    MaxFeeClaims = {}
    MaxInstructions = 7
    MaxClock = 4
SYMMETRY PositionSymmetry
INVARIANTS
    RewardVaultsCoverClaims
    CheckpointsBehind
    UnlockedLiquidityIsWithdrawable
PROPERTY EarnedRewardsAreKept
