SPECIFICATION UpdatesSpec
CONSTANTS
  NoVersion = NoVersion
  Updater = {u1}
  OneShot = {}
  Task = {t1, t2}
  HardLinks = TRUE
  MaxVersion = 3
  MaxFetch = 1
  MaxRollback = 1
  MaxUpdateCrash = 1
  MaxUpdateFault = 1
  Collection = {"usage", "tokens"}
  Retention = "retention"
  MaxTarget = 2
  MaxQueue = 1
  MaxArrival = 4
  Collector = {1, 2}
  MaxPair = 3
  MaxFault = 2
INVARIANTS
  UpdatesSafe
PROPERTIES
  RecordsAreTrue
  UpToDate
  WorkIsServed
  CollectorsRecover
