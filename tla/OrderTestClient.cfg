SPECIFICATION Spec
CONSTANTS
  MaxTrouble = 3
INVARIANTS TypeOK Cancels CleanMeansAnswered
CHECK_DEADLOCK FALSE
