SPECIFICATION FairFramingSpec
CONSTANTS
  NumUsers = 2
  Lens = {1, 2, 3}
  Carriers = {5, 8}
  Bps = 2
  HeaderSyms = 10
INVARIANT AllDataSent
