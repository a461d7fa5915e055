SPECIFICATION mcSpec
CONSTANTS
    Operators = {1, 2}
    Refs = {"r1"}
    Contents = {"c1", "c2"}
    Endpoints = {"e1", "e2"}
    Liars = {"e1"}
    Setups <- FourSetups
    Shaky = {1}
    Real <- OneReal
    Threshold = 2
    MESSAGE_TTL_BLOCKS = 1
    MAX_REMEMBERED_EXPIRED = 1
    MaxHeight = 4
    CrewHeight = 2
    MaxSeq = 6
    CrewSeq = 3
    None = None
CHECK_DEADLOCK FALSE
INVARIANTS
    NeverEquivocates
    SurvivesOneCut
    OnlyRealLocks
