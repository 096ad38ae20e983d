SPECIFICATION Spec
CONSTANTS
  POF_RECV_BUF_MAX_SIZE = 8
  Lens = {2, 5}
  Payloads = {20}
  SplitHeaders = FALSE
  MaxSent = 8
  MaxConn = 2
INVARIANTS
  TypeOK
  
  AlwaysRoom
  
 
CHECK_DEADLOCK FALSE
