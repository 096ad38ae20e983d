SPECIFICATION Spec
CONSTANTS
  Names <- MCNames
  Active = {"eth0"}
  hash <- MCHash
  IndexRange = 3
  Replug = FALSE
  Overlap = FALSE
  MaxSys = 2
  MaxConn = 2
INVARIANTS
  TypeOK
  EnabledAsMeant
  
  
  
CHECK_DEADLOCK FALSE
