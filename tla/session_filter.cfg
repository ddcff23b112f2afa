SPECIFICATION FairSpec
CHECK_DEADLOCK FALSE
CONSTANTS
  Setups <- Filtering
  Codes <- AtTheBorder
  TimeoutFirst = TRUE
  MaxSub <- OneEach
PROPERTIES TurnedAwayIsCutOff
