CONSTANTS
  MaxTimers = 2
  MaxLedger = 0
  Limits <- TwoTimers
SPECIFICATION Spec
PROPERTY
  JoinReturns
CHECK_DEADLOCK FALSE
