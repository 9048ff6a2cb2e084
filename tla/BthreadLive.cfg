SPECIFICATION FairSpec
CONSTANTS
  Jobs <- JobsA
  SleepOn <- SleepOnA
  Wakes <- WakesA
  Delay <- DelayA
  BootQueue <- BootA
  BootIdent <- IdentA
  BootTime = 1
  MaxClock = 3
  MaxQueue = 6
  StepBack = FALSE
  HardError <- NoJobs
INVARIANTS
  RunnableQueued
  PollFindsJob
  TimersSound
PROPERTIES
  IdleOnlyWhenAsleep
  JobsRun
CHECK_DEADLOCK FALSE
