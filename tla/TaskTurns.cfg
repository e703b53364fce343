SPECIFICATION FairLoopSpec
CONSTANTS
  Nodes <- SomeNodes
  NumNodes = 3
  NormalFreq = 50
  U4Sizes = {5, 10, 40}
  MaxOrphans = 1
INVARIANT OncePerNetPeriod
