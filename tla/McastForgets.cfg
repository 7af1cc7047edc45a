SPECIFICATION FairSpec
CONSTANTS
  Req <- MCReq
  RecvSize = 2
  SendSlots = 1
  BatchSize = 3
PROPERTY PreparedIsSubmitted
CHECK_DEADLOCK FALSE
