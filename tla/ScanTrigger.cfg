SPECIFICATION Spec
CONSTANTS
  c1 = c1
  c2 = c2
  d1 = d1
  d2 = d2
  Clicks = {c1, c2}
  Dashboards = {d1, d2}
  Home <- TwoReplicas
  RunningTTL = 2
  MaxTime = 2
  Fails = TRUE
INVARIANTS AcceptedAfterOthers AcceptedIsShown IdleIsRecent
CHECK_DEADLOCK FALSE
