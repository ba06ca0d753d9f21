SPECIFICATION ServicesSpec
CONSTANTS
  p1 = p1  c1 = c1  d1 = d1
  None = None
  Proc = {i1}
  Pane = {p1}
  NumHarness = 1
  Conv = {c1}
  HarnessOf <- OneHarness
  Digest = {d1, d2}
  RelaunchLimit = 1
  MaxSeq = 1
  MaxChange = 1
  MaxCrash = 1
  MaxFault = 1
  MaxScanMiss = 0
  MaxDamage = 0
  Collector = {"a", "b"}
  MaxSubscription = 2
  Cooldown = 3
  MaxAge = 1
  MaxAlertFault = 3
  Timer = {"a", "b"}
  ResetTime = {1, 2}
  Lease = 2
  MaxSleep = 2
  MaxResetFault = 2
  MaxRow = 2
  MaxVersion = 2
  Puller = {"a", "b"}
  PageRows = 1
  MaxPages = 1
  MaxPullFault = 1
  Inode = {i1, i2, i3, i4, i5}
  MaxRestore = 3
  MaxEdit = 4
CHECK_DEADLOCK FALSE
INVARIANTS
  ServicesSafe
  ScanCovers
PROPERTIES
  MaintenanceSettles
  AlertsGetThrough
  ResumesArrive
  MirrorCatchesUp
