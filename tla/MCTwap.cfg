CONSTANTS
    OBSERVATIONS_CAPACITY = 3
    MAX_TICK_DELTA = 2
    MAX_TAIL_INTERVALS = 1
    window_duration = 7
    Tick <- MCTick
    Price = {0, 3, 5}
    price_to_tick <- MCPriceToTick
    tick_to_oracle_price <- MCTickToPrice
    InitialPrice = {0, 3, 5}
    ForeignObservations <- MCForeignObservations
    MAX_TIME = 8
    NONE = NONE
SPECIFICATION PoolSpec
INVARIANTS
    WindowIsSound
    StaleFeedCanBeRecorded
    RecordedWalkIsBounded
PROPERTIES
    FreshnessIsTruthful
    ImplementsPriceFeed
