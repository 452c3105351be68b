SPECIFICATION FairSpec
CONSTANTS
  Requests = {r1, r2}
  Runs = {w1, w2}
  MaxText = 2
INVARIANTS TypeOK NothingStuck EvaluationIsCurrent RankFollows ErasedStaysErased
PROPERTY Decided
CHECK_DEADLOCK FALSE
