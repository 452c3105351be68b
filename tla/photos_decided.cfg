SPECIFICATION FairSpec
CONSTANTS
  Photos = {p1}
  Actors = {a1, a2}
PROPERTY EventuallyDecided
CHECK_DEADLOCK FALSE
