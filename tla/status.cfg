SPECIFICATION FairSpec
CHECK_DEADLOCK FALSE
CONSTANTS
  Messages = {}
  Setups <- Usual
INVARIANTS TypeOK ReadyMeansOneChain OneChainAccepted OneStatus EarlyMessageExplained
PROPERTIES HandshakeEnds StrangersPart
