SPECIFICATION TwoReleases
CONSTANTS
  Repos = {r1}
  Refs = {x1}
  Names = {x1}
  NameOf <- OwnNames
  Outcomes <- AllOutcomes
  Releases = {a, b}
  Unlabelled = unlabelled
  History = 1
  MaxDependencies = 1
  MaxClock = 2
  None = None
  NoScan = NoScan
  NoDep = NoDep
  v1 = v1
  v2 = v2
  dA = dA
  dB = dB
  r1 = r1
  x1 = x1
  a = a
PROPERTIES ReportsKeepTheirRelease
CHECK_DEADLOCK FALSE
