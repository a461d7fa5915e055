CONSTANTS
    c1 = c1  c2 = c2  o1 = o1  o2 = o2  a1 = a1  r1 = r1  r2 = r2
    Chains = {c1}
    Corridors = {c1}
    Assets = {a1}
    Refs = {r1, r2}
    Operators = {o1, o2}
    Governors = {o1, o2}
    Threshold = 2
    GovThreshold = 2
    ConfirmationDepth <- OneDeep
    AssetCap <- AssetCapOfThree
    AssetEpochCap <- NoEpochCap
    EpochCap = 2
    ExitDelay = 1
    ReserveMaxAge <- NoneOf
    RESUME_WINDOW = 2
    RESUME_SKEW = 1
    WATCHDOG_MAX_WINDOW = 1
    WATCHDOG_COOLDOWN = 3
    EMERGENCY_FREEZE_MAX_WINDOW = 2
    MAX_PENDING_EXITS = 2
    Orders <- MintOrders
    Deposits <- MintDeposits
    Reports <- NoRequests
    StaticReserves <- EscrowOfFour
    MaxInFlight = 2
    MaxHeight = 3
    MaxEpoch = 2
SPECIFICATION Spec
INVARIANTS AckedIsDurable SupplyWithinCap EpochBudget
PROPERTY NoMintWhileHalted
