SPECIFICATION FairSpec
CONSTANTS
  FrameLen <- MCFrameLen
  BufSize = 3
  MsgLen = 2
  MaxSend = 2
INVARIANTS
  TypeOK
  Listening
  WireWhole
PROPERTIES
  Delivered
  Returns
CHECK_DEADLOCK FALSE
