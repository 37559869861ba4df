CONSTANTS
    CAPABILITY_WARMUP_MAX_ATTEMPTS = 2
    REFRESH_FAILURES_BEFORE_ERROR = 2
    SNAPSHOT_SYNC_CHUNK_BLOCKS = 1
    MAX_ACCOUNTS = 2
    MAX_HEIGHT = 2
    MAX_REQUESTS = 2
    NONE = NONE
SPECIFICATION Spec
INVARIANT
    FeePayerOfAnOpenWallet
CHECK_DEADLOCK FALSE
