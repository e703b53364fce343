SPECIFICATION FairSpec
CONSTANTS
  NumNodes = 3
  FrameLen = 2
  Readers = {1, 2, 3}
  Sizes = {2, 3}
  MaxPackets = 3
  MaxReads = 3
CHECK_DEADLOCK FALSE
INVARIANTS Conservation SwallowedByCollision
PROPERTIES ImplementsDelivery EventuallyWritten
