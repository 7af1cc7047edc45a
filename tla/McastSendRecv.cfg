SPECIFICATION FairSpec
CONSTANTS
  Req <- MCReq
  RecvSize = 2
  SendSlots = 1
  BatchSize = 3
INVARIANTS TypeOK RequestsKept
PROPERTY SpinEnds
CHECK_DEADLOCK FALSE
