SPECIFICATION FairBaseSpec
CONSTANTS
  Allocs = {full, hole}
  FullBand = full
  Mobiles = 2
  Symbols = 2
  Hardened = FALSE
  NoOwner = NoOwner
  Dests = {0, 1, 2, 3}
  NumNodes = 3
  MaxReads = 2
CHECK_DEADLOCK TRUE
INVARIANTS GeneratorOutlivesUse FramesAreWhole QueueIntact NoStaleBuffer
PROPERTIES AllocationIsInstalled QueuedIsTaken
