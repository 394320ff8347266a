\* A machine and its second life, an agent on either port, one fault.
SPECIFICATION FairSpec
CONSTANTS
    Port = {"vport", "hvc"}
    MAX_FAIL = 1
    MaxHvc = 2
    MaxQueue = 3
    MaxLife = 2
    MaxFault = 1
INVARIANTS
    DoorsFollow RetryIsDue
PROPERTIES
    AgentReached
CHECK_DEADLOCK FALSE
