SPECIFICATION Spec
CHECK_DEADLOCK FALSE
CONSTANTS
  Nodes = {a, b}
  Self = b
  Conns = {c1, c2, c3}
  NoId = NoId
  Free = Free
  MaxPeers = 1
  MaxQueue = 2
SYMMETRY ConnSymmetry
INVARIANTS TypeOK EntryHasOwner AddedHasConnection ListedIsAnnounced
PROPERTIES DialWithinMax NoPeerReplaced QueueNotLost
