CONSTANTS
    FIXED_POINT_ONE = 4
    ORACLE_ONE = 4
    MAXIMUM_COMPOUNDING_WINDOW = 1
    INTEGRAL_CLAMP = 1
    RATE_DELTA_CLAMP = 1
    MINIMUM_REDEMPTION_PRICE = 2
    MAXIMUM_REDEMPTION_PRICE = 6
    Account = {alice}
    OracleId = {twap}
    LiveOracle = {twap}
    OraclePrice = {5}
    MIN_COLLATERALIZATION_RATIO = 5
    MAX_COLLATERALIZATION_RATIO = 40
    MAX_STABILITY_FEE = 6
    MAXIMUM_CONTROLLER_PROPORTIONAL_GAIN = 4
    MAXIMUM_CONTROLLER_INTEGRAL_GAIN = 4
    MAX_TIMING = 4
    FeeInput = {3, 4, 6}
    RatioInput = {5}
    GainInput = {4}
    TimingInput = {1}
    PriceInput = {3}
    MAX_TIME = 2
    ABSENT = ABSENT
    PositionId = {p1, p2}
    Amount = {0, 1, 2}
    CollateralSupply = 2
SPECIFICATION Spec
INVARIANTS
    TypeOK
    DebtCoversSupply
    NoPositionIsTrapped
    PositionPlansAgree
PROPERTIES
    AccrualMintsTheFee
    DebtNeverJumps
    SoundPositionsStaySound
SYMMETRY PositionSymmetry
CHECK_DEADLOCK FALSE
