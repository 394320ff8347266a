CONSTANTS
  Endp = {e1}
  Lan = {l1}
  Client = {c1, c2}
  Tidx = {0, 1}
  NoLan = NoLan
  NoClient = NoClient
  ZombieRetimes = 1
  MaxStart = 1
  MaxTypeReq = 1
  MaxQuit = 1
  MaxCrash = 1
  MaxDelayed = 1
  MaxSeq = 1
SPECIFICATION FairSpec
INVARIANTS AttachConsistent FreeFindsNoLan AnsweredOnce
PROPERTIES LanNameReusable StopFrees StartTimesOut
CHECK_DEADLOCK FALSE
