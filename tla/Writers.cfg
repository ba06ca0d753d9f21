SPECIFICATION WritersSpec
CONSTANTS
  Backfill = {b1, b2}
  Observer = {o1}
  NumTokenKey = 2
  BackfillRows = 1
  BackfillRestarts = 1
  MaxAppend = 4
  Server = {w1, w2}
  NumUnit = 2
  Unlocked = Unlocked
  MaxRun = 2
  MaxUser = 1
  MaxRunFault = 2
  Tab = {a, b}
  NumText = 2
  TombstoneTTL = 1
  MaxClock = 3
  MaxAct = 3
  NumOp = 2
  Clones = {1}
  MaxRename = 3
  MaxOpFault = 2
  h1 = h1  h2 = h2  m1 = m1  m2 = m2  m3 = m3
  Host = {h1, h2}
  Mail = {m1, m2, m3}
  HostOf <- TwoHosts
  NumImage = 2
  CacheCap = 3
  Nobody = Nobody
  MaxOld = 1
  MaxMailFault = 2
  Account = {a1, a2}
  None = None
  MaxCommit = 1
  MaxClick = 2
  MaxBreak = 1
  Client = {k1, k2}
  NoRow = NoRow
  Cap = 1
  Cooldown = 1
  MaxRequest <- StoreRequests
  MaxNow = 1
  Refused = Refused
  Failed = Failed
CHECK_DEADLOCK FALSE
INVARIANTS
  WritersSafe
  SpoolKeepsWhatIsShown
  QuietIsCurrent
  StoreCapsHold
PROPERTIES
  TotalsNeverShrink
  NeverOlder
  OthersAreKept
  StoreContract
