SPECIFICATION MCSpec
CONSTANTS
  Order <- Three
  Limit = 2
  Outcomes = {"ok", "err"}
  HasDeadline = TRUE
  r1 = r1
  r2 = r2
  r3 = r3
  Procs = {p1, p2}
  LeaseDuration = 3
  RenewDeadline = 2
  Free = Free
  Urls <- MCUrls
  Keys <- MCKeys
  Entries <- MCEntries
  Tree <- MCTree
  MaxRev = 2
  MaxScans = 3
  NoUrl = NoUrl
  NoRev = NoRev
  Mixed = Mixed
  NoClone = NoClone
  NoEntry = NoEntry
  Padded <- MCPadded
  Raised <- MCRaised
  Durations <- MCDurations
  ReadableFiles = {"f"}
  MaxRepoDirLen = 2
  Refused = Refused
  NoConfig = NoConfig
INVARIANTS
  TypeOK RecordedOnce NoTruncatedReport AllAccounted CancelBlamesNobody ExitZeroMeansAllSucceeded
  RefusedMeansHeld ExitedHoldsNothing ScansTheRemote SourcesResolve EveryLoadSound
PROPERTIES Terminates HoldersExclude EveryProcessEnds
CHECK_DEADLOCK FALSE
