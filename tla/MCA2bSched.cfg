SPECIFICATION FairSpec
CONSTANTS
    CIRC_SIZE = 3
    MS = 2
    Late = 1
    UNIT = 1
    TOTAL_LOSS_VALUE = 3
    INT = 16
    Length = {2}
    Conf0 <- MCConf0
    Commands <- MCCommands
    MaxPkt = 3
    MaxConf = 1
    MaxDelay = 2
INVARIANTS
    RingSound FeedPace
PROPERTIES
    DelayKept Leaves
