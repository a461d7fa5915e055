SPECIFICATION Spec
CONSTANTS
    QBlocks <- mcQBlocks
    MAX_DEPTH = 3
    MAX_U64 = 90
    MAX_RESPONSE = 8
    MAX_ATTESTATIONS = 4
    MAX_COMMITTEE_REVEALS = 4
    MAX_CREDENTIAL_SIBLINGS = 2
    MAX_HEIGHTS_PER_POLL = 2
    MAX_BURNS_PER_POLL = 2
    MAX_U32 = 90
    MAX_U128 = 90
    MIN_PAYOUT_CONFIRMATIONS = 2
    MIN_PINNED_CHECKPOINT_HEIGHT = 2
    MIN_PAYOUT_WORK = 150
    ATTEST_PK_BYTES = 4
    BEACON_SEED_BYTES = 32
    params <- mcParams
    PINNED_CHECKPOINTS <- mcPinned
    MEDIAN_TIME_SPAN = 3
    MAX_MERKLE_BRANCH = 3
    MAX_COUNT = 5
    MAX_MONEY = 50
    HALF_BTC = 3
    Blocks <- mcBlocks
    Txs <- mcTxs
    Envs <- mcEnvs
    Nodes <- mcNodes
    Releases <- mcReleases
    EXIT_ACK_PATH_WIRED = TRUE
    BITCOIN_CORRIDOR = 43
    REDEEM_WINDOW = 4
    SLASH_GRACE = 0
    MAX_PENDING_RELEASES = 2
    MAX_SEEN_RELEASES = 2
    AckSets <- mcAckSets
    HonestKeys = {"k1", "k2", "k3"}
    OwnKey = "k1"
    ERA = "now"
    OldEra = "old"
    Threshold = 3
    EXIT_ACK_QUORUM_MIN = 2
    Finalized <- mcFinalized
    HonestMembers = {"q1", "q2", "q3"}
    MaxTime = 5
    Watched <- mcWatched
    LIMBS = 2
    LIMB_BYTES = 2
    BYTE = 2
    GROUP = 2
    WORD = 7
INVARIANTS OnlyRealBurns PaidMeansPaid PaysInTime OneVerdict
CHECK_DEADLOCK FALSE
