SPECIFICATION FairSpec
CONSTANTS
  Req = {r1, r2}
  QueueSize = 2
  Depth = 2
INVARIANTS TypeOK PendingCovers
PROPERTIES Implements Answers
CHECK_DEADLOCK FALSE
