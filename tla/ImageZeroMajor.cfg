CONSTANTS
  Tags <- ZeroTags
  Requests <- ZeroRequests
  PreWords <- MCPreWords
  PageSize = 2
  MaxPages = 2
  PageBudget = 4
  VerifyCandidates = 2
  MaxTags = 3
  NoTag = NoTag
  NoChart = NoChart
  NoVersion = NoVersion
  Junk = Junk
SPECIFICATION ZeroSpec
INVARIANTS NoSilentMiss
CHECK_DEADLOCK FALSE
