CONSTANTS
  Endp = {e1, e2}
  Lan = {l1}
  Client = {c1}
  Tidx = {0}
  NoLan = NoLan
  NoClient = NoClient
  ZombieRetimes = 0
  MaxStart = 1
  MaxTypeReq = 1
  MaxQuit = 0
  MaxCrash = 0
  MaxDelayed = 1
  MaxSeq = 1
SPECIFICATION Spec
SYMMETRY EndpSymmetry
INVARIANTS NbUsersExact SlotLanLives
CHECK_DEADLOCK FALSE
