SPECIFICATION DanglingSpec
CONSTANTS
  Fd = {f1, f2}
  Acceptor = acceptor
  Req = {f1, f2, acceptor}
  QueueSize = 3
PROPERTY Notice
CHECK_DEADLOCK FALSE
