SPECIFICATION LaunchesSpec
CONSTANTS
  None = None
  Foreign = Foreign
  Proc = {i1}
  Req = {r1}
  Log = {l1, l2}
  MaxRestart = 0
  MaxCrash = 1
  MaxFault = 0
  MaxTurn = 2
  Nobody = Nobody
  Web = {w1, w2}
  Launch = {n1, n2}
  Killer = {k1}
  MaxLeaseCrash = 1
  MaxLeaseFault = 1
INVARIANTS
  LeaseSafe
PROPERTIES
  EligibleIsClaimed
  Answered
  FreeAgain
