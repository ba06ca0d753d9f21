SPECIFICATION AloneSpec
SYMMETRY Symmetry
CONSTANTS
  i1 = i1  i2 = i2  p1 = p1  p2 = p2  c1 = c1  c2 = c2  d1 = d1  d2 = d2
  None = None
  Proc = {i1}
  Pane = {p1}
  NumHarness = 2
  Conv = {c1, c2}
  HarnessOf <- TwoHarnesses
  Digest = {d1, d2}
  RelaunchLimit = 1
  MaxSeq = 1
  MaxChange = 1
  MaxCrash = 1
  MaxFault = 0
  MaxScanMiss = 0
  MaxDamage = 0
PROPERTIES
  ClaimedNeverRetried
