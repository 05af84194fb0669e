SPECIFICATION Spec
CONSTANTS
  Order <- Two
  Limit = 2
  Outcomes = {"ok", "err", "big"}
  HasDeadline = TRUE
  r1 = r1
  r2 = r2
  r3 = r3
INVARIANTS ExitZeroMeansAllSucceeded
CHECK_DEADLOCK FALSE
