SPECIFICATION FairSpec
CHECK_DEADLOCK FALSE
CONSTANTS
  Setups <- Usual
  Codes <- AtTheBorder
  TimeoutFirst = TRUE
  MaxSub <- OneEach
INVARIANTS TypeOK StartInOrder RoutedAsSent LastIsDisconnect OneDisconnects
PROPERTIES DisconnectEnds BothClose
