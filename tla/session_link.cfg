SPECIFICATION FairSpec
CHECK_DEADLOCK FALSE
CONSTANTS
  Setups <- Talking
  Codes <- AtTheBorder
  TimeoutFirst = TRUE
  MaxSub <- TwoBack
PROPERTIES ImplementsLink MessagesArrive PeersPart
