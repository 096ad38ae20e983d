SPECIFICATION Spec
CONSTANTS
  POF_RECV_BUF_MAX_SIZE = 8
  Lens = {2, 7}
  Payloads = {0, 7}
  SplitHeaders = FALSE
  MaxSent = 7
  MaxConn = 1
INVARIANTS
  HandlesMessages
CHECK_DEADLOCK FALSE
