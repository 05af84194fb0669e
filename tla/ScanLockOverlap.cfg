SPECIFICATION LockSpec
CONSTANTS
  Procs = {p1, p2}
  LeaseDuration = 3
  RenewDeadline = 2
  Free = Free
INVARIANTS OnlyOneScan
CHECK_DEADLOCK FALSE
