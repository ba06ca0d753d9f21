SPECIFICATION MachinesSpec
CONSTANTS
  Pane = {p1}
  Nested = {p1}
  Watcher = {1, 2}
  MaxEvent = 3
  MaxPeerFault = 2
  MaxChan = 2
  MaxObserve = 2
  Reader = {"page", "a"}
  Page = "page"
  MaxContent = 2
  MaxLoss = 2
INVARIANTS
  MachinesSafe
PROPERTIES
  MirrorSpec
  Converges
  StreamCatchesUp
