SPECIFICATION Spec
CONSTANTS
  Users = {u1, u2}
  Requests = {r1, r2, r3}
  Admission = "serial"
  Faults = TRUE
INVARIANTS TypeOK ActiveMeansBothLike NoMissedMatch
PROPERTIES AtomicRequests
