SPECIFICATION FairSpec
CONSTANTS
  ErrBuf = 8
  EnableHtlc = TRUE
  EnablePayments = TRUE
  EnableGraph = TRUE
  MaxFailures = 0
  MaxCollecting = 0
PROPERTY ShutdownCompletes
CHECK_DEADLOCK FALSE
