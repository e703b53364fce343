SPECIFICATION FairFramingSpec
CONSTANTS
  NumUsers = 3
  Lens = {1, 3}
  Carriers = {7, 8}
  Bps = 2
  HeaderSyms = 10
CHECK_DEADLOCK TRUE
INVARIANTS CutOnlyByStaleRecord JoinedGetsPayload
PROPERTY Resynchronises
