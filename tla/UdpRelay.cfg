SPECIFICATION FairSpec
CONSTANTS
  Slot = {s1, s2, s3}
  Req <- MCReq
  QueueSize = 3
  Last = 3
INVARIANTS TypeOK OneOwner NoneLost
PROPERTY Relayed
CHECK_DEADLOCK FALSE
