CONSTANTS
    FIXED_POINT_ONE = 10
    ORACLE_ONE = 4
    MAXIMUM_COMPOUNDING_WINDOW = 2
    INTEGRAL_CLAMP = 2
    RATE_DELTA_CLAMP = 2
    MINIMUM_REDEMPTION_PRICE = 10
    MAXIMUM_REDEMPTION_PRICE = 20
    Account = {alice, bob}
    OracleId = {twap, unborn}
    LiveOracle = {twap}
    OraclePrice = {0, 4, 14}
    MIN_COLLATERALIZATION_RATIO = 11
    MAX_COLLATERALIZATION_RATIO = 100
    MAX_STABILITY_FEE = 12
    MAXIMUM_CONTROLLER_PROPORTIONAL_GAIN = 10
    MAXIMUM_CONTROLLER_INTEGRAL_GAIN = 10
    MAX_TIMING = 4
    FeeInput = {10}
    RatioInput = {15}
    GainInput <- MCGainInput
    TimingInput = {0, 1, 2}
    PriceInput = {9, 16}
    MAX_TIME = 3
    ABSENT = ABSENT
SPECIFICATION ControllerSpec
INVARIANT
    UnbornOracleIsServed
SYMMETRY AccountSymmetry
CHECK_DEADLOCK FALSE
