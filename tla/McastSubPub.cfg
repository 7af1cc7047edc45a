SPECIFICATION FairSpec
CONSTANTS
  Slot = {s1, s2}
  QueueSize = 2
  Last = 3
INVARIANTS TypeOK OneOwner InOrder
PROPERTY StopsAtDatagram
CHECK_DEADLOCK FALSE
