SPECIFICATION FairSpec
CONSTANTS
    Name = {v}
    MAX_VM = 3
    MAX_ZOMBIE = 2
    MaxAdd = 2
    MaxDeath = 3
    D10 = 1
    D200 = 2
    D400 = 3
PROPERTIES
    AddAnswered NameComesBack
CHECK_DEADLOCK FALSE
