SPECIFICATION Spec
CHECK_DEADLOCK FALSE
CONSTANTS
  Nodes = {a}
  Self = me
  Conns = {c1, c2}
  NoId = NoId
  Free = Free
  MaxPeers = 2
  MaxQueue = 1
INVARIANTS RemovedMeansDisconnected
