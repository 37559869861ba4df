CONSTANTS
    u1 = u1
    u2 = u2
    User = {u1, u2}
    VAULT = VAULT
    FEES = FEES
    LOCK = LOCK
    POOL = POOL
    Squattable <- MCSquattable
    Authority = {u1, u2}
    InitialBalance <- MCInitialBalance
    MINIMUM_LIQUIDITY = 2
    FEE_BPS_DENOMINATOR = 4
    Q64 = 4
    U128_MAX = 40
    price_to_tick <- MCPriceToTick
    NONE = NONE
    SwapFee = {0, 1, 4}
    ProtocolFee = {4, 5}
    Input = {1, 2, 3}
    Limit = {1, 3}
SPECIFICATION Spec
INVARIANTS
    TypeOK
    PoolIsSolvent
    TickFollowsReserves
    RoundingFavoursThePool
PROPERTIES
    ShareValueNeverFalls
    SurplusLeavesOnlyBySync
