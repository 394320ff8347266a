CONSTANTS
  Pid = {p1, p2}
  NoPid = NoPid
  MaxIdent = 3
  MaxJobs = 3
  MaxLaunch = 2
  MaxMsg = 1
  MaxStop = 1
SPECIFICATION FairSpec
INVARIANTS MessagesBeforeReport EachKnownOnce
PROPERTIES ImplementsDeaths EveryDeathReaped
CHECK_DEADLOCK FALSE
