CONSTANTS
  Paths = {page, script}
  Requests = {q1, q2}
  NoScript = noscript
  NoAnswer = noanswer
  Sessions = {a, b}
  NoSession = none
  Scripts <- Releases
  CacheName <- TwoNames
  MaxFetches = 3
  MaxStores = 3
SYMMETRY SessionSymmetry
SPECIFICATION Spec
INVARIANTS OfflineCopyIsLastSeen OldCachesAreGone SettledPageFollowsTheSession
INVARIANTS TextIsShown RepliesAreChecked RowsAreLinesOfTheFiles
PROPERTY EarlierBlocksStay
CHECK_DEADLOCK FALSE
