SPECIFICATION mcSpec
CONSTANTS
    Conns = {c1, c2}
    Addrs <- mcAddrs
    Proxies <- mcProxies
    Kinds = {"malformed", "order", "deposit", "rotation"}
    Updates <- mcUpdates
    MAX_CONNECTIONS = 2
    MAX_CONNECTIONS_PER_IP = 2
    MAX_ADMITS_PER_WINDOW = 2
    MAX_ADMITS_PER_IP_PER_WINDOW = 1
    MAX_BODY = 2
    MAX_INFLIGHT_BODY = 3
    Verifiers <- mcVerifiers
    PerWindow <- mcPerWindow
    PerIp <- mcPerIp
    PerPrefix <- mcPerPrefix
    Limit <- mcLimit
    Cap <- mcCap
    MAX_PROOF_DEPTH = 3
    MAX_DEPTH = 64
    MAX_NODES = 200000
    Base = 3
    Width <- mcWidth
INVARIANTS NothingLeaks CodecsAgree
PROPERTIES RotationBuildsOn ConnectionsEnd
CHECK_DEADLOCK FALSE
