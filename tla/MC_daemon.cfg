CONSTANTS
    Orders = {x1, x2}
    Reports = {s1}
    MaxLog = 4
    Heads <- AnyHead
    Epochs <- AnyEpoch
    ExpectedHeads <- Expected
    ExpectedEpoch = 2
    Rate = 2
    CLOCK_SLACK_BLOCKS = 3
    Gap = 2
    Age = 5
    MaxTime = 4
    MaxBoots = 3
    Daemons = {"d1", "d2"}
    Envs <- Environments
    Deposits = {x1, x2}
    Pools = {"A"}
    PUBLIC_KEY_BYTES = 4
    MIN_STATE_KEY_BYTES = 32
    MAX_U16 = 99
    MAX_U32 = 99
    MAX_U64 = 99
    MAX_U128 = 99
    MaxReports = 2
SPECIFICATION DaemonSpec
INVARIANTS HeadBounded EpochMovesPaced LoggedBeforeSaved StartsUnlessTorn ReplaySetSurvives
CHECK_DEADLOCK FALSE
