SPECIFICATION PostSpec
CONSTANTS
  Fd = {f1, f2, f3}
  Acceptor = acceptor
  Req <- MCReq
  QueueSize = 4
  Chunk = 2
INVARIANT PostTypeOK
PROPERTY ImplementsServer
CHECK_DEADLOCK FALSE
