SPECIFICATION FairSpec
CONSTANTS
  Second = 2
  RunTimes <- SomeRunTimes
  MaxInit = 1
  MaxNow = 7
  UsingTunTap = TRUE
  Uninitialised = TRUE
CHECK_DEADLOCK TRUE
INVARIANTS TapOutlivesThreads ReceiverOutlivesRun
PROPERTIES SignalEndsProgram FiniteRunEnds
