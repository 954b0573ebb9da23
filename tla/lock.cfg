SPECIFICATION LiveSpec
CONSTANTS
    ONE_Q = 64
    FEE_DENOMINATOR = 10
    MIN_FEE_NUMERATOR = 1
    MAX_FEE_NUMERATOR = 5
    BASIS_POINT_MAX = 10
    VARIABLE_FEE_SCALE = 100
    EXPONENT_BITS = 3
    ProtocolFeePercent = 50
    ReferralFeePercent = 50
    PartnerFeePercent = 50
    HasPartner = TRUE
    CollectFeeMode = "BothToken"
    BaseFee <- FlatBaseFee
    DynamicFee <- NoDynamicFee
    ActivationPoint = 0
    PreActivationPoint = 0
    SqrtMinPrice = 32
    SqrtMaxPrice = 128
    NUM_REWARDS = 0
    REWARD_RATE_SCALE = 64
    SPLIT_POSITION_DENOMINATOR = 2
    Key = {admin}
    Admins = {admin}
    Creator = admin
    NoKey = nokey
    MaxVestingDuration = 5
    PositionId = {p1, p2}
    VestingId = {v1, v2}
    StartTime = 0
    MIN_REWARD_DURATION = 1
    MAX_REWARD_DURATION = 4
    InitialSqrtPrices = {64}
    LiquidityDeltas = {1024}
    AmountThresholds = {0, 100}
    SwapAmounts = {}
    MinimumAmountsOut = {0}
    VestingParameterInputs <- CliffAndPeriods
    CliffPoints = {1}
    PermanentLockAmounts = {100}
    SplitNumerators <- EvenSplit
    RewardDurations = {}
    FundingAmounts = {}
    MaxFeeClaims = {}
    MaxInstructions = 5
    MaxClock = 8
    LastInstruction = 3
INVARIANTS
    LiquidityIsOwned
    PermanentLockIsOwned
    LocksBackVestedLiquidity
    ReleasesFollowSchedule
    PositionCountIsExact
PROPERTIES
    ImplementsLedger
    EveryLockIsReleased
