CONSTANTS
    coin = coin
    u1 = u1
    u2 = u2
    a1 = a1
    a2 = a2
    AccountId = {coin, u1, u2, a1, a2, faucet}
    Foreign = {}
    Spoofed = {}
    NONE = NONE
    ZeroId = ZeroId
    U128_MAX = 2
    Key = {u1, u2}
    associated <- MCAssociated
    MintAuthority = faucet
    FAUCET_MINT_AMOUNT = 1
    MINT_COOLDOWN_MS = 1
    OpeningAuthority = {faucet, u1}
    MAX_TIME = 1
SPECIFICATION ProgramsSpec
PROPERTIES
    OnlyTheOwnerMoves
    FaucetSupplyIsRationed
CHECK_DEADLOCK FALSE
