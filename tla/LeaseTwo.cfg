SPECIFICATION LeaseSpec
SYMMETRY Symmetry
CONSTANTS
  Nobody = Nobody
  Web = {i1}
  Launch = {r1, r2, r3}
  Killer = {k1}
  MaxLeaseCrash = 0
  MaxLeaseFault = 0
INVARIANTS
  OneConversation
