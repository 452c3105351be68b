SPECIFICATION Spec
CONSTANTS
  Photos = {p1, p2}
  Actors = {a1, a2}
SYMMETRY Symmetry
INVARIANTS TypeOK OnePrimary FileFollowsRow
PROPERTIES DecisionStands
CHECK_DEADLOCK FALSE
