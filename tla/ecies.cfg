SPECIFICATION FairSpec
CHECK_DEADLOCK FALSE
CONSTANTS
  Pads <- Padding
  HelloSize = 120
  Sizes <- Lengths
  MaxFrames = 2
INVARIANTS TypeOK Aligned KeysBeforeFrames DirectionsMatch ReadAsSent
PROPERTIES MessagesRead
