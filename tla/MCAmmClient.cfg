CONSTANTS
    u1 = u1
    u2 = u2
    User = {u1, u2}
    Client = {u1}
    VAULT = VAULT
    FEES = FEES
    LOCK = LOCK
    POOL = POOL
    Squattable <- MCSquattable
    Authority = {u2}
    InitialBalance <- MCInitialBalance
    MINIMUM_LIQUIDITY = 2
    FEE_BPS_DENOMINATOR = 4
    Q64 = 4
    U128_MAX = 40
    price_to_tick <- MCPriceToTick
    NONE = NONE
    REJECTED = REJECTED
    SwapFee = {1}
    ProtocolFee = {4}
    Input = {1, 3}
    Limit = {1}
    Slippage = {0, 2}
    OpeningPrice = {6}
SPECIFICATION ClientSpec
INVARIANTS
    QuotedMeansExecutable
    EveryClientCanExit
PROPERTIES
    QuoteIsExact
    ToleranceIsHonoured
CHECK_DEADLOCK FALSE
