SPECIFICATION Spec
CONSTANTS
  Requests = {r1, r2}
  HourlyLimit = 2
  DailyLimit = 3
  LifetimeLimit = 4
  ProfileLimit = 2
  Hour = 1
  Day = 3
  MaxTime = 4
  MaxStrikes = 5
SYMMETRY Symmetry
INVARIANTS TypeOK StruckOut
PROPERTIES RestrictionStands
CHECK_DEADLOCK FALSE
