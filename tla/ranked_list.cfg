SPECIFICATION FairSpec
CONSTANTS
  Candidates = {c1, c2}
  Writers = {u1}
  Readers = {r1}
  Runs = {w1, w2}
  MaxChanges = 2
INVARIANTS TypeOK RanksFollow CacheFollows
PROPERTY EventuallyRanked
CHECK_DEADLOCK FALSE
