SPECIFICATION Spec
CONSTANTS
  Instance = {i1, i2}
  None = None
  Tx = {t1}
  TTL = 2
  Margin = 1
  Drift = 1
  MaxTime = 4
  MaxFaults = 1
INVARIANTS TypeOK AtMostOneLeader LeaderHoldsLease FenceHolds
PROPERTIES FencedSpec
CHECK_DEADLOCK FALSE
SYMMETRY Sym
