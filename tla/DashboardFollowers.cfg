SPECIFICATION Spec
CONSTANTS
  Dashboards = {a, b}
  Timed = {a}
  CommandLine = cli
  MaxLate = 2
INVARIANTS FollowersStaySilent
CHECK_DEADLOCK FALSE
