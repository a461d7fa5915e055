SPECIFICATION mcSpec
CONSTANTS
    config <- mcConfig
    presets <- mcPresets
    PINNED_BLOCK_ROOTS <- mcPinnedRoots
    SLOTS_PER_HISTORICAL_ROOT = 8
    BLOCK_ROOTS_DEPTH = 3
    MAX_DEPOSIT_ANCESTRY = 2
    MAX_U128 = 7
    Heads <- mcHeads
    LAST_SLOT = 23
    Committees <- mcCommittees
    Honest <- mcHonest
    ForgedSlots <- mcForgedSlots
    FalseCommittee <- mcFalseCommittee
    Receipts <- mcReceipts
    ForgedReceipts <- mcForgedReceipts
    params <- mcParams
    checkpoint <- mcCheckpoint
    PINNED_CHECKPOINTS <- mcPinnedCheckpoints
    deposit_script = "bridge"
    MEDIAN_TIME_SPAN = 3
    MAX_MERKLE_BRANCH = 4
    MAX_COUNT = 4
    MAX_MONEY = 20
    HALF_BTC = 1
    MAX_TRUSTLESS_DEPOSIT_SATS = 4
    Blocks <- mcBlocks
    Txs <- mcTxs
    Materials <- mcMaterials
    cfg <- mcCfg
    anchor <- mcAnchor
    PINNED_TRUSTED_STATES <- mcPinnedStates
    MAX_VALIDATORS = 5
    HASH_LEN = 4
    DEPOSIT_WORDS = 3
    MAX_OP_PREFIX_LEN = 9
    MAX_INNER_SUFFIX_LEN = 9
    MAX_PROOF_PATH_LEN = 3
    MAX_STORE_PATH_LEN = 2
    Main <- mcMain
    ForgedHeaders <- mcForgedHeaders
    Corrupt = {"z"}
    UNBONDING = 4
    LAST_TIME = 8
    BridgeStore <- mcBridgeStore
    Stores <- mcStores
    BridgeNodes <- mcBridgeNodes
    AppNodes <- mcAppNodes
    StoreProofs <- mcStoreProofs
    Networks <- mcNetworks
    ASSETS <- mcASSETS
    FEDERATED_DEPTH <- mcFederatedDepth
    PROOF_DEPTH <- mcProofDepth
    DEFAULT_CONFIRMATION_DEPTH = 5
    PROVISIONAL_CAP = 9
    MAX_POOLS = 6
    MAX_DECIMALS = 36
    MAX_CAP = 9
    WELLFORMED <- mcWellformed
    governance_configured = FALSE
    dest_chain_id = 7
    PoolRequests <- mcPoolRequests
    AnchorFiles <- mcAnchorFiles
    MIN_PINNED_CHECKPOINT_HEIGHT = 2
    MIN_PAYOUT_WORK = 16
    MAX_BRIDGE_SCRIPT = 3
    MAX_COMMITTEE_MEMBERS = 3
    MaxMints = 3
    LIMBS = 2
    LIMB_BYTES = 2
    BYTE = 2
    GROUP = 2
    WORD = 7
    SINGLE = 4
    SPAN = 2
    OF_LEN = 2
    RLP_MAX_DEPTH = 4
    NIBBLE = 4
INVARIANTS TrustsTheChain OnlyRealDeposits AlgorithmsRight
PROPERTY FollowsTheChain
CHECK_DEADLOCK FALSE
