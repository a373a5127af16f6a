SPECIFICATION FairSpec
CONSTANTS
  ErrBuf = 3
  EnableHtlc = TRUE
  EnablePayments = TRUE
  EnableGraph = FALSE
  MaxFailures = 1
  MaxCollecting = 6
INVARIANTS
  ErrorConservation
  NoBlockedSend
  ExitStatus
PROPERTIES
  ImplementsLifecycle
  ErrorStops
  SignalStops
  StopEnds
CHECK_DEADLOCK FALSE
