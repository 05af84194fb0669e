SPECIFICATION MCSpec
CONSTANTS
  Dashboards = {a, b}
  Timed = {a}
  CommandLine = cli
  MaxLate = 2
  Bound <- Cut
  Vocabulary <- Kinds
  NoSnapshot = NoSnapshot
  d1 = d1
  Deps = {d1, d2}
  Servers = {s1, s2}
  MaxScans = 2
INVARIANTS FailedChecksTold
CHECK_DEADLOCK FALSE
