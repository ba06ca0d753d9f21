SPECIFICATION Spec
CONSTANTS
  None = None
  Reporter = {r1}
  NumKey = 1
  PageRows = 2
  ChunkRows = 1
  MaxPages = 1
  MaxAttempts = 1
  MaxReplays = 9
  MaxUsage = 1
  MaxToken = 1
  MaxGen = 1
  MaxVersion = 1
  MaxWire = 1
  MaxWork = 2
INVARIANTS
  Resumable
