SPECIFICATION Spec
CONSTANTS
    Burns <- TwoBurns
    Releases <- OnePayout
    Collateral <- TwoVaults
    SECURE_BPS = 3
    BPS_DEN = 2
    Window = 0
    Grace = 0
    MAX_UNFINALIZED_ATTEMPTS = 2
    MAX_PENDING_BURNS = 1
    MAX_DEAD_LETTERS = 1
    MAX_LEDGER_ENTRIES = 2
    MAX_PENDING_RELEASES = 2
    MAX_SEEN_RELEASES = 2
    MaxTime = 1
INVARIANTS
    RestartsUnlessTorn
    VaultsBacked
    NoBurnLost
PROPERTIES
    PaidNotSlashed
    KeepsPromise
