SPECIFICATION Spec
CONSTANTS
  Producers = {"dp"}
  StdinTty = FALSE
  MaxActive = 1
  QueueMax = 1
  MaxFd = 2
PROPERTY Reconnects
CHECK_DEADLOCK FALSE
