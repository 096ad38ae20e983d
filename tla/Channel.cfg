SPECIFICATION Spec
CONSTANTS
  Producers = {"dp", "echo"}
  StdinTty = FALSE
  MaxActive = 1
  QueueMax = 1
  MaxFd = 1
INVARIANT TypeOK
INVARIANT NoStaleRules
INVARIANT RulesAfterHandshake
 
CHECK_DEADLOCK FALSE
