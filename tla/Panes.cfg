SPECIFICATION PartsSpec
SYMMETRY Symmetry
CONSTANTS
  None = None
  Foreign = Foreign
  Proc = {i1, i2}
  Req = {r1, r2}
  Log = {l1, l2}
  MaxRestart = 1
  MaxCrash = 1
  MaxFault = 1
  MaxTurn = 3
INVARIANTS
  PaneSafe
PROPERTIES
  CompactedOnce
  OnlyLeftoversJoin
