CONSTANTS
  MaxJobs = 5
  MaxReq = 11
SPECIFICATION FairSpec
INVARIANT IndexInOnePlace
PROPERTIES ImplementsPromise EveryRequestServed
CHECK_DEADLOCK FALSE
