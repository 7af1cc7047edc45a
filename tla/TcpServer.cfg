SPECIFICATION FairSpec
CONSTANTS
  Fd = {f1, f2, f3, f4}
  Acceptor = acceptor
  Req <- MCReq
  QueueSize = 5
INVARIANTS TypeOK NoFreedRequest OneInFlight CountIsExact RoundAlive QueueSuffices
PROPERTIES Notice Served
CHECK_DEADLOCK FALSE
