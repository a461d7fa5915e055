SPECIFICATION Spec
CONSTANTS
    Operators = {1}
    Refs = {"r1", "r2"}
    Contents = {"c1", "c2"}
    Endpoints = {"e1"}
    Liars = {"e1"}
    Setups <- Alone
    Shaky = {}
    Real <- OneReal
    Threshold = 2
    MESSAGE_TTL_BLOCKS = 1
    MAX_REMEMBERED_EXPIRED = 1
    MaxHeight = 4
    MaxSeq = 6
    CrewHeight = 4
    CrewSeq = 6
    None = None
CHECK_DEADLOCK FALSE
INVARIANTS
    NoLiveConflict
