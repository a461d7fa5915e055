CONSTANTS
    c1 = c1  c2 = c2  o1 = o1  o2 = o2  o3 = o3  o4 = o4  a1 = a1
    r1 = r1  r2 = r2
    Chains = {c1, c2}
    Corridors = {c1}
    Assets = {a1}
    Refs = {r1, r2}
    Operators = {o1, o2, o3, o4}
    Governors = {}
    Threshold = 2
    GovThreshold = 0
    ConfirmationDepth <- OneDeep
    AssetCap <- CapOfThree
    AssetEpochCap <- EpochCapOfTwo
    EpochCap = 2
    ExitDelay = 1
    ReserveMaxAge <- NoneOf
    RESUME_WINDOW = 2
    RESUME_SKEW = 1
    WATCHDOG_MAX_WINDOW = 1
    WATCHDOG_COOLDOWN = 3
    EMERGENCY_FREEZE_MAX_WINDOW = 2
    MAX_PENDING_EXITS = 2
    Hosts <- TwoHosts
    ForkDepths = {1, 2}
    MaxHeight = 3
    MaxExits = 2
    MaxBatches = 2
SPECIFICATION Spec
INVARIANTS Conservation ExitClosesOnce LiftedStaysLifted SupermajoritySigned
PROPERTY ResumeNotOlderThanPause
