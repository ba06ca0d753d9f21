SPECIFICATION AloneSpec
SYMMETRY Symmetry
CONSTANTS
  i1 = i1  i2 = i2  p1 = p1  p2 = p2  c1 = c1  c2 = c2  d1 = d1  d2 = d2
  None = None
  Proc = {i1, i2}
  Pane = {p1, p2}
  NumHarness = 1
  Conv = {c1}
  HarnessOf <- OneHarness
  Digest = {d1, d2}
  RelaunchLimit = 1
  MaxSeq = 2
  MaxChange = 1
  MaxCrash = 2
  MaxFault = 1
  MaxScanMiss = 1
  MaxDamage = 1
INVARIANTS
  TypeOK
  NeverRelaunchedTwice
  NewerMutationWins
  UpdaterSafe
PROPERTIES
  ClaimedNeverRetried
  OnlyStaleForgotten
