SPECIFICATION MCSpec
CONSTANTS
  Tags <- MCTags
  Requests <- MCRequests
  PreWords <- MCPreWords
  PageSize = 1
  MaxPages = 2
  PageBudget = 4
  VerifyCandidates = 2
  MaxTags = 3
  NoTag = NoTag
  NoChart = NoChart
  NoVersion = NoVersion
  Junk = Junk
  Calls <- ScanCalls
  Keys = {image, meta, index, other}
  KeyOf <- ScanKeys
  Parent <- ScanParents
  Indexes = {index, other}
  Slots = 1
  Hangs = {image, index}
  None = None
  image = image
  meta = meta
  index = index
  other = other
  a1 = a1
  a2 = a2
  m1 = m1
  i1 = i1
  o1 = o1
INVARIANTS ImageTypeOK NoSilentMiss BestOffered EveryChartAnswerSound AskedOnce SameAnswer
PROPERTIES EveryCallReturns
CHECK_DEADLOCK FALSE
