SPECIFICATION PeerSpec
CONSTANTS
    MAX_C2C_IDX = 3
    MAX_PING = 1
    MaxAdd = 1
    MaxConn = 2
    MaxUpset = 1
INVARIANTS
    EndpHasOwner Watched IndexesAgree
CHECK_DEADLOCK FALSE
