SPECIFICATION MCSpec
CONSTANTS
    ONE_Q = 64
    FEE_DENOMINATOR = 10
    MIN_FEE_NUMERATOR = 1
    MAX_FEE_NUMERATOR = 5
    BASIS_POINT_MAX = 10
    EXPONENT_BITS = 3
    k1 = k1
    k2 = k2
    Key = {k1, k2}
    NoKey = NoKey
    Admins = {k1}
    Mint = {1, 2, 3, 4}
    MintInfo <- Mints
    QuoteMints = {3}
    ConfigIndex = {0}
    MIN_SQRT_PRICE = 32
    MAX_SQRT_PRICE = 128
    BIN_STEP_BPS_DEFAULT = 1
    BIN_STEP_BPS_Q_DEFAULT = 6
    U24_MAX = 100
    BUFFER <- OneHour
    JOIN_DIVISOR = 2
    MAX_ACTIVATION_DURATION <- OneMonth
    NoPoint = NoPoint
    StaticConfigParameters <- OfferedConfigs
    CustomizableParameters <- OfferedParameters
    SqrtPrices = {16, 64}
    Liquidities = {0, 1024}
    ActivationPoints = {0, 4, 6, 12, NoPoint}
    MaxInstructions = 4
    MaxClock = 6
    LastCreation = 1
INVARIANTS
    PoolsAreSound
    OnePoolPerPair
PROPERTIES
    VaultWindowIsAhead
    EveryPoolIsActivated
