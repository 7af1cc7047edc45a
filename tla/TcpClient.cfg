SPECIFICATION ClientFairSpec
CONSTANTS
  Req = {r1, r2, r3}
  QueueSize = 4
  Limit = 5
INVARIANTS ClientTypeOK AllArmed
PROPERTY Ends
CHECK_DEADLOCK FALSE
