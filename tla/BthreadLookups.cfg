SPECIFICATION Spec
CONSTANTS
  Jobs <- JobsB
  SleepOn <- SleepOnB
  Wakes <- WakesB
  Delay <- DelayB
  BootQueue <- BootB
  BootIdent <- IdentB
  BootTime = 1
  MaxClock = 2
  MaxQueue = 6
  StepBack = TRUE
  HardError <- NetErr
PROPERTIES
  ServedSound
CHECK_DEADLOCK FALSE
