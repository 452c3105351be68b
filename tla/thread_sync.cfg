SPECIFICATION FairSpec
CONSTANTS
  MaxMessages = 3
  MaxMishaps = 3
  MaxPolls = 2
  Scenarios <- AllScenarios
INVARIANTS TypeOK CleanThread NothingLost
PROPERTIES LosslessThread
\* A conversation nobody writes to any more is idle.
CHECK_DEADLOCK FALSE
