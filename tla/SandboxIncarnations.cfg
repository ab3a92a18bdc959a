CONSTANTS
  Instances = {i1}
  Nodes = {n1}
  None = None
  Lookers = {l1}
  Reapers = {d1}
  Kinds = {"create"}
  MaxInc = 2
  MaxEpoch = 0
  OpIds = {o1}
  MaxFaults = 1
CHECK_DEADLOCK FALSE
SPECIFICATION FairSpec
PROPERTIES OrphanPodsGo
