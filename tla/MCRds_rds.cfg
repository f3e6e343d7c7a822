SPECIFICATION Spec
CONSTANTS
    MAXDISKS = 1
    BadIds = {}
    Users = {"u", "v"}
    Ids = {"d"}
    Blocks = {0, 1}
    Vals = {"x", "y"}
    RD_BUFFS = 2
    RD_RETRIES = 2
    Late = FALSE
    Calls <- Programs
    Mine <- OwnBlocks
    MaxCalls = 5
INVARIANTS BuffersOwned ReadsLatest WritesKept
CHECK_DEADLOCK FALSE
