SPECIFICATION MCSpec
CONSTANTS
  Repos = {r1, r2}
  Refs = {x1}
  Names = {x1}
  NameOf <- OwnNames
  Outcomes <- AllOutcomes
  Releases = {a}
  Unlabelled = unlabelled
  History = 1
  MaxDependencies = 1
  MaxClock = 2
  None = None
  NoScan = NoScan
  NoDep = NoDep
  v1 = v1
  v2 = v2
  dA = dA
  dB = dB
  r1 = r1
  x1 = x1
  a = a
PROPERTIES PruneLeavesNothing
CHECK_DEADLOCK FALSE
