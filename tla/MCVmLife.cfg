SPECIFICATION Spec
CONSTANTS
    Name = {v, w}
    MAX_VM = 3
    MAX_ZOMBIE = 2
    MaxAdd = 3
    MaxDeath = 1
    D10 = 1
    D200 = 2
    D400 = 3
SYMMETRY NameSymmetry
INVARIANTS
    DirsApart ZombieHasReaper AnswerOwed
CHECK_DEADLOCK FALSE
