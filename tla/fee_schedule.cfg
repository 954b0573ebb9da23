SPECIFICATION ScheduleSpec
CONSTANTS
    ONE_Q = 16
    FEE_DENOMINATOR = 60
    MIN_FEE_NUMERATOR = 3
    MAX_FEE_NUMERATOR = 30
    BASIS_POINT_MAX = 10
    EXPONENT_BITS = 3
    MaxPeriods = 7
    PeriodFrequencies = {0, 1, 2}
    ActivationPoint = 2
    MaxClock = 17
INVARIANTS
    FeeStaysInBounds
    PowTracksPower
PROPERTY
    FeeNeverRises
