SPECIFICATION FairSpec
CONSTANTS
  NodeId = 1
  Step = 25
  RightLimit = 412
  HoleWidth = 150
  Subcarriers = 512
  WarmupBatches = 3
  CloseHoleTimeout = 2
  MitigationTimeout = 3
  ResendPeriod = 1
  MaxBatchTime = 2
PROPERTY ReopensInPlace
