SPECIFICATION FairSpec
CONSTANTS
  Allocs = {full, holeA, holeB}
  FullBand = full
  None = None
  Unset = Unset
CHECK_DEADLOCK TRUE
INVARIANTS ExecutesLiveSync MainInstallsAsked
PROPERTIES InstallCompletes ReceivedIsHandled
