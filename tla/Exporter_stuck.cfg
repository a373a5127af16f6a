SPECIFICATION Spec
CONSTANTS
  ErrBuf = 8
  EnableHtlc = TRUE
  EnablePayments = TRUE
  EnableGraph = TRUE
  MaxFailures = 8
  MaxCollecting = 7
INVARIANT NoStuckStop
CHECK_DEADLOCK FALSE
