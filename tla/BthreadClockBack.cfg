SPECIFICATION Spec
CONSTANTS
  Jobs <- JobsA
  SleepOn <- SleepOnA
  Wakes <- WakesA
  Delay <- DelayA
  BootQueue <- BootA
  BootIdent <- IdentA
  BootTime = 1
  MaxClock = 3
  MaxQueue = 6
  StepBack = TRUE
  HardError <- NoJobs
INVARIANTS
  TimerOrder
CHECK_DEADLOCK FALSE
