SPECIFICATION Spec
CONSTANTS
  Tokens = {t1, t2, t3}
  Tabs = {b1, b2}
  Requests = {r1, r2}
  None = None
SYMMETRY Symmetry
CONSTRAINT Explored
INVARIANTS TypeOK NoneLeftBehind RevocationHolds
CHECK_DEADLOCK FALSE
