SPECIFICATION FairSpec
CONSTANTS
  MaxCommands = 5
  MaxSpurious = 1
INVARIANTS TypeOK InStep NoneSkipped
PROPERTIES Woken
CHECK_DEADLOCK FALSE
