SPECIFICATION Spec
CONSTANTS
  Users = {u1, u2}
  Requests = {r1, r2}
  Admission = "per_actor"
  Faults = FALSE
INVARIANTS NoMissedMatch
