SPECIFICATION MCSpec
CONSTANTS
  Repos = {r1, r2}
  Refs = {x1, x2}
  Names = {x1, x2}
  NameOf <- OwnNames
  Outcomes <- AllOutcomes
  Releases = {a, unlabelled, b}
  Unlabelled = unlabelled
  History = 2
  MaxDependencies = 2
  MaxClock = 3
  None = None
  NoScan = NoScan
  NoDep = NoDep
  v1 = v1
  v2 = v2
  dA = dA
  dB = dB
  r1 = r1
  x1 = x1
  a = a
INVARIANTS StatusAgrees NoLostHandle
PROPERTIES RecordedExactly CarriedOver FailureKeepsReports PrunedMeansGone
CHECK_DEADLOCK FALSE
