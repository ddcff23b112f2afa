SPECIFICATION FairSpec
CHECK_DEADLOCK FALSE
CONSTANTS
  a = a
  b = b
  e1 = e1
  e2 = e2
  e3 = e3
  e4 = e4
  Nodes = {a, b}
  Endpoints = {e1, e2, e3, e4}
  Owner <- Owners
  Port <- Ports
  Encoded <- Packed
  NoTcp = {e2}
  NoId = NoId
  BucketSize = 1
  MaxPings = 2
  MaxCalls = 2
INVARIANTS TypeOK TableAnswered WaitsForOwnPing RequestsMatch
PROPERTIES CallsEnd
