SPECIFICATION FairSpec
CONSTANTS
  MAX_TIMEOUT_BEATS = 3
  MaxBeat = 5
  MaxRef = 4
INVARIANTS
  FiresAtDueBeat
  SavedNextIsLive
  LookupIsExact
PROPERTIES
  ImplementsPromise
  EveryTimeoutLeaves
CHECK_DEADLOCK FALSE
