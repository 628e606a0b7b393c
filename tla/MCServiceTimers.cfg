CONSTANTS
  MaxTimers = 2
  MaxLedger = 2
  Limits <- OneTimer
SPECIFICATION Spec
INVARIANTS
  TypeOK
  NoDanglingTimer
  NoResetUnderRun
PROPERTIES
  JoinLeavesNoTimer
  TasksAreRun
  TimersAreOneShot
  TimerFires
