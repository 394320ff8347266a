SPECIFICATION Spec
CONSTANTS
    Ep = {e1, e2, e3}
    MAX_USOCK_RANKS = 3
    MaxCon = 3
SYMMETRY EpSymmetry
INVARIANTS
    RanksApart MembersExact NeverStuck
CHECK_DEADLOCK FALSE
