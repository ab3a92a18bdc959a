CONSTANTS
  Instances = {i1, i2}
  Nodes = {n1}
  None = None
  Lookers = {}
  Reapers = {}
  Kinds = {"create", "resume", "hibernate"}
  MaxInc = 1
  MaxEpoch = 0
  OpIds = {o1, o2}
  MaxFaults = 1
CHECK_DEADLOCK FALSE
SPECIFICATION FairSpec
INVARIANTS OpMatchesRow TransitionHasOp
PROPERTIES NoStuckOp
