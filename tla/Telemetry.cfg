SPECIFICATION FairTelemetrySpec
CONSTANTS
  MaxEntries = 2
  Modulus = 8
  PayloadLens = {3}
  MaxBytes = 6
  Enough = 4
CHECK_DEADLOCK TRUE
INVARIANTS LogIntact ThroughputIsTrue
PROPERTY EntriesAreWritten
