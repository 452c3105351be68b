SPECIFICATION Spec
CONSTANTS
  Senders = {ann, bob}
  Keys = {k1}
  NoKey = noKey
  Texts <- TwoTexts
  Flagged <- RudeText
  Requests = {r1, r2, r3}
  None = none
  Crashes = TRUE
INVARIANTS TypeOK RepliesAgree FanOutFollowsInsert ReplayIsFree
SYMMETRY RequestSymmetry
\* A finished conversation is idle.
CHECK_DEADLOCK FALSE
