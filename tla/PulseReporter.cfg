SPECIFICATION Spec
SYMMETRY Symmetry
CONSTANTS
  None = None
  Reporter = {r1, r2}
  NumKey = 1
  PageRows = 2
  ChunkRows = 1
  MaxPages = 2
  MaxAttempts = 1
  MaxReplays = 4
  MaxUsage = 2
  MaxToken = 2
  MaxGen = 1
  MaxVersion = 1
  MaxWire = 2
  MaxWork = 3
INVARIANTS
  PushSafe
PROPERTIES
  FeedSpec
  SweepIsComplete
  TokensNeverGoBack
