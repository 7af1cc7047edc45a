SPECIFICATION Spec
CONSTANTS
  InitialSize = 9
  DefaultHb = 2
  HbLimit = 3
  MaxTime = 8
  MaxSeqNum = 2
  MaxSymbols = 2
  Streams <- MCStreams
INVARIANTS TypeOK Framed SilenceNoticed CancelHolds NumberedOnce
CHECK_DEADLOCK FALSE
