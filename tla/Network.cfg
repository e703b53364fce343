SPECIFICATION NetFairSpec
CONSTANTS
  NodeId = 1
  Step = 25
  RightLimit = 412
  HoleWidth = 150
  Subcarriers = 512
  WarmupBatches = 3
  CloseHoleTimeout = 1
  MitigationTimeout = 1
  ResendPeriod = 1
  MaxBatchTime = 1
  JammedCarriers = {200, 300}
  NoJammer = NoJammer
  MaxFaults = 3
  MaxMoves = 2
CHECK_DEADLOCK TRUE
INVARIANT AgreeWithoutFaults
PROPERTIES RepairedByNextVerdict EvadesJammer QuietRestoresFullBand
