SPECIFICATION Spec
CHECK_DEADLOCK FALSE
CONSTANTS
  Nodes = {a, b}
  Self = me
  Conns = {c1, c2}
  NoId = NoId
  Free = Free
  MaxPeers = 1
  MaxQueue = 1
INVARIANTS MaxPeersRespected
