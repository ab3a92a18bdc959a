CONSTANTS
  Instances = {i1}
  Nodes = {n1, n2}
  None = None
  Lookers = {l1}
  Reapers = {d1}
  Kinds = {"create", "hibernate", "restore"}
  MaxInc = 1
  MaxEpoch = 1
  OpIds = {o1}
  MaxFaults = 0
CHECK_DEADLOCK FALSE
SPECIFICATION Spec
SYMMETRY Symmetry
INVARIANTS TypeOK NotCondemned
PROPERTIES CheckpointKept
